---------------------------- MODULE Spec2Model ----------------------------
(***************************************************************************)
(* A model of tson (packages/core): the strict JSON tokenizer and parser,  *)
(* the handler registry of one instance, the conversion engine             *)
(* (convertValue), the revival engine (reviveValue) and the stringifier.   *)
(*                                                                         *)
(* Texts and JavaScript strings are sequences of one-character strings.    *)
(* JSON values are records tagged by t:                                    *)
(*   [t |-> "null"], [t |-> "bool", v |-> TRUE], [t |-> "num", v |-> 3],   *)
(*   [t |-> "str", v |-> <<"a">>], [t |-> "arr", v |-> <<j1, j2>>],        *)
(*   [t |-> "obj", v |-> << <<key1, j1>>, <<key2, j2>> >>]                 *)
(* An object is the sequence of its own properties in the order            *)
(* Object.keys reports them.                                               *)
(***************************************************************************)
EXTENDS Integers, Sequences, FiniteSets, TLC

(***************************************************************************)
(* Characters                                                              *)
(***************************************************************************)

\* The characters the model uses, in increasing UTF-16 code unit order.
Alphabet ==
    << "\t", "\n", "\r", " ", "\"", "$", "'", "+", ",", "-", ".", "/",
       "0", "1", "2", "3", "4", "5", "6", "7", "8", "9", ":",
       "A", "B", "D", "E", "F", "I", "L", "M", "R", "S", "U", "Z",
       "[", "\\", "]", "_",
       "a", "b", "c", "e", "f", "g", "i", "l", "n", "o", "p", "r", "s",
       "t", "u", "v", "x", "y", "{", "}" >>

CharCode(c) == CHOOSE i \in 1..Len(Alphabet) : Alphabet[i] = c

Digits == <<"0", "1", "2", "3", "4", "5", "6", "7", "8", "9">>

isDigit(c) == \E i \in 1..10 : Digits[i] = c

DigitVal(c) == (CHOOSE i \in 1..10 : Digits[i] = c) - 1

isHexDigit(c) ==
    \/ isDigit(c)
    \/ c \in {"a", "b", "c", "d", "e", "f", "A", "B", "C", "D", "E", "F"}

\* /[a-zA-Z0-9_]/ of Tokenizer.match
isIdentChar(c) ==
    \/ isDigit(c)
    \/ c = "_"
    \/ (c \in {Alphabet[i] : i \in 1..Len(Alphabet)}
        /\ \/ (CharCode(c) >= CharCode("A") /\ CharCode(c) <= CharCode("Z"))
           \/ (CharCode(c) >= CharCode("a") /\ CharCode(c) <= CharCode("y")))

\* s < t in the order of Array.prototype.sort() without a comparator:
\* code unit by code unit, a proper prefix first.
RECURSIVE StrLess(_, _)
StrLess(s, t) ==
    IF t = <<>> THEN FALSE
    ELSE IF s = <<>> THEN TRUE
    ELSE IF Head(s) = Head(t) THEN StrLess(Tail(s), Tail(t))
    ELSE CharCode(Head(s)) < CharCode(Head(t))

RECURSIVE Concat(_)
Concat(ss) == IF ss = <<>> THEN <<>> ELSE Head(ss) \o Concat(Tail(ss))

(***************************************************************************)
(* JSON values                                                             *)
(***************************************************************************)

JNull == [t |-> "null"]
JBool(b) == [t |-> "bool", v |-> b]
JNum(n) == [t |-> "num", v |-> n]
JStr(s) == [t |-> "str", v |-> s]
JArr(items) == [t |-> "arr", v |-> items]
JObj(props) == [t |-> "obj", v |-> props]

TypeKey == <<"$", "t", "y", "p", "e">>
ValueKey == <<"$", "v", "a", "l", "u", "e">>
ProtoKey == <<"_", "_", "p", "r", "o", "t", "o", "_", "_">>

ObjKeys(props) == [i \in 1..Len(props) |-> props[i][1]]

ObjHas(props, k) == \E i \in 1..Len(props) : props[i][1] = k

ObjGet(props, k) == props[CHOOSE i \in 1..Len(props) : props[i][1] = k][2]

\* A canonical array index ("0", "7", "12"): such keys are reported first and
\* in ascending numeric order by Object.keys, Object.entries and JSON.stringify.
IsArrayIndex(k) ==
    /\ k # <<>>
    /\ \A i \in 1..Len(k) : isDigit(k[i])
    /\ (Len(k) > 1 => k[1] # "0")

RECURSIVE DecimalVal(_)
DecimalVal(ds) ==
    IF ds = <<>> THEN 0
    ELSE 10 * DecimalVal(SubSeq(ds, 1, Len(ds) - 1)) + DigitVal(ds[Len(ds)])

\* Creation or update of an own enumerable property: an existing own key keeps
\* its place, a new array index goes among the indices in numeric order, any
\* other new key goes last.
ObjDefine(props, k, v) ==
    IF ObjHas(props, k)
    THEN [i \in 1..Len(props) |-> IF props[i][1] = k THEN <<k, v>> ELSE props[i]]
    ELSE IF IsArrayIndex(k)
    THEN LET n == Cardinality({i \in 1..Len(props) :
                                  /\ IsArrayIndex(props[i][1])
                                  /\ DecimalVal(props[i][1]) < DecimalVal(k)})
         IN  SubSeq(props, 1, n) \o << <<k, v>> >> \o SubSeq(props, n + 1, Len(props))
    ELSE Append(props, <<k, v>>)

\* obj[k] = v on an object created by {}: "__proto__" reaches the prototype
\* setter and creates no own property.
ObjSet(props, k, v) == IF k = ProtoKey THEN props ELSE ObjDefine(props, k, v)

\* isPlainObject of lib/utils on a JSON value.
isPlainObject(j) == j.t = "obj"

\* A recognition that asks for a string $type only.
isTaggedValueByType(j) ==
    /\ isPlainObject(j)
    /\ ObjHas(j.v, TypeKey)
    /\ ObjGet(j.v, TypeKey).t = "str"

\* isTaggedValue of lib/utils: a string $type and an own $value.
isTaggedValue(j) ==
    /\ isPlainObject(j)
    /\ ObjHas(j.v, TypeKey)
    /\ ObjGet(j.v, TypeKey).t = "str"
    /\ ObjHas(j.v, ValueKey)

(***************************************************************************)
(* Stringifier                                                             *)
(***************************************************************************)

\* keys.sort(): insertion of one key into a sorted sequence.
RECURSIVE InsertSorted(_, _)
InsertSorted(k, ks) ==
    IF ks = <<>> THEN <<k>>
    ELSE IF StrLess(k, Head(ks)) THEN <<k>> \o ks
    ELSE <<Head(ks)>> \o InsertSorted(k, Tail(ks))

RECURSIVE SortStrings(_)
SortStrings(ks) ==
    IF ks = <<>> THEN <<>> ELSE InsertSorted(Head(ks), SortStrings(Tail(ks)))

RECURSIVE sortKeys(_)
RECURSIVE SortedProps(_, _, _)
\* The loop of sortKeys: sorted[k] = sortKeys(value[k]) for k of the sorted keys.
SortedProps(props, keys, acc) ==
    IF keys = <<>> THEN acc
    ELSE SortedProps(props, Tail(keys),
                     ObjSet(acc, Head(keys), sortKeys(ObjGet(props, Head(keys)))))

sortKeys(j) ==
    IF j.t = "null" THEN JNull
    ELSE IF j.t = "arr" THEN JArr([i \in 1..Len(j.v) |-> sortKeys(j.v[i])])
    ELSE IF ~isPlainObject(j) THEN j
    ELSE JObj(SortedProps(j.v, SortStrings(ObjKeys(j.v)), <<>>))

RECURSIVE NatToChars(_)
NatToChars(n) ==
    IF n < 10 THEN <<Digits[n + 1]>>
    ELSE NatToChars(n \div 10) \o <<Digits[(n % 10) + 1]>>

\* Number::toString of an integer.
NumToChars(n) == IF n < 0 THEN <<"-">> \o NatToChars(0 - n) ELSE NatToChars(n)

\* QuoteJSONString of JSON.stringify, character by character.
QuoteChar(c) ==
    CASE c = "\"" -> <<"\\", "\"">>
      [] c = "\\" -> <<"\\", "\\">>
      [] c = "\n" -> <<"\\", "n">>
      [] c = "\r" -> <<"\\", "r">>
      [] c = "\t" -> <<"\\", "t">>
      [] c = "\f" -> <<"\\", "f">>
      [] c = "BS" -> <<"\\", "b">>
      [] OTHER -> <<c>>

Quote(s) == <<"\"">> \o Concat([i \in 1..Len(s) |-> QuoteChar(s[i])]) \o <<"\"">>

RECURSIVE Join(_, _)
Join(parts, sep) ==
    IF parts = <<>> THEN <<>>
    ELSE IF Len(parts) = 1 THEN parts[1]
    ELSE parts[1] \o sep \o Join(Tail(parts), sep)

Indent(unit, level) == Concat([i \in 1..level |-> unit])

\* JSON.stringify(value, null, space) on a JSON-safe tree; unit is one level's
\* indentation (empty: minified), level the current nesting depth.
RECURSIVE Emit(_, _, _)
Emit(j, unit, level) ==
    LET nl(l) == IF unit = <<>> THEN <<>> ELSE <<"\n">> \o Indent(unit, l)
        colon == IF unit = <<>> THEN <<":">> ELSE <<":", " ">>
    IN  CASE j.t = "null" -> <<"n", "u", "l", "l">>
          [] j.t = "bool" -> IF j.v THEN <<"t", "r", "u", "e">>
                             ELSE <<"f", "a", "l", "s", "e">>
          [] j.t = "num" -> NumToChars(j.v)
          [] j.t = "str" -> Quote(j.v)
          [] j.t = "arr" ->
               IF j.v = <<>> THEN <<"[", "]">>
               ELSE <<"[">> \o nl(level + 1)
                    \o Join([i \in 1..Len(j.v) |-> Emit(j.v[i], unit, level + 1)],
                            <<",">> \o nl(level + 1))
                    \o nl(level) \o <<"]">>
          [] j.t = "obj" ->
               IF j.v = <<>> THEN <<"{", "}">>
               ELSE <<"{">> \o nl(level + 1)
                    \o Join([i \in 1..Len(j.v) |->
                                Quote(j.v[i][1]) \o colon
                                \o Emit(j.v[i][2], unit, level + 1)],
                            <<",">> \o nl(level + 1))
                    \o nl(level) \o <<"}">>

\* stringifyJson(value, {space, deterministic}).
stringifyJson(j, unit, deterministic) ==
    IF deterministic THEN Emit(sortKeys(j), unit, 0) ELSE Emit(j, unit, 0)

(***************************************************************************)
(* Tokenizer                                                               *)
(***************************************************************************)

\* The tokenizer's fields after construction: line 1, column 1, position 0.
TokenizerInit == [position |-> 0, line |-> 1, column |-> 1]

isAtEnd(input, st) == st.position >= Len(input)

\* '\0' at the end of the input.
peek(input, st) == IF isAtEnd(input, st) THEN "NUL" ELSE input[st.position + 1]

advance(st) == [st EXCEPT !.position = @ + 1, !.column = @ + 1]

RECURSIVE advanceBy(_, _)
advanceBy(st, n) == IF n = 0 THEN st ELSE advanceBy(advance(st), n - 1)

createToken(type, value, line, column, position) ==
    [type |-> type, value |-> value, line |-> line, column |-> column,
     position |-> position]

\* this.error(message): a TsonParseError at the tokenizer's current place.
TokError(message, st) ==
    [ok |-> FALSE,
     err |-> [message |-> message, line |-> st.line, column |-> st.column,
              position |-> st.position]]

TokOk(tok, st) == [ok |-> TRUE, tok |-> tok, st |-> st]

makeToken(type, value, length, st) ==
    TokOk(createToken(type, value, st.line, st.column, st.position),
          advanceBy(st, length))

RECURSIVE skipWhitespace(_, _)
skipWhitespace(input, st) ==
    IF isAtEnd(input, st) THEN st
    ELSE IF peek(input, st) \in {" ", "\r", "\t"}
    THEN skipWhitespace(input, advance(st))
    ELSE IF peek(input, st) = "\n"
    THEN skipWhitespace(input, advance([st EXCEPT !.line = @ + 1, !.column = 0]))
    ELSE st

match(input, st, expected) ==
    IF st.position + Len(expected) > Len(input) THEN FALSE
    ELSE IF \E i \in 1..Len(expected) : input[st.position + i] # expected[i]
    THEN FALSE
    ELSE IF /\ st.position + Len(expected) < Len(input)
            /\ isIdentChar(input[st.position + Len(expected) + 1])
    THEN FALSE
    ELSE TRUE

\* The maximal run of digits at st: <<the digits, the state after them>>.
RECURSIVE digitRun(_, _, _)
digitRun(input, st, acc) ==
    IF isDigit(peek(input, st))
    THEN digitRun(input, advance(st), Append(acc, peek(input, st)))
    ELSE <<acc, st>>

RECURSIVE Pow10(_)
Pow10(n) == IF n = 0 THEN 1 ELSE 10 * Pow10(n - 1)

RECURSIVE StripZeros(_, _)
\* <<m, e>> with m * 10^e unchanged and m not a multiple of 10 (0 as <<0, 0>>).
StripZeros(m, e) ==
    IF m = 0 THEN <<0, 0>>
    ELSE IF m % 10 = 0 THEN StripZeros(m \div 10, e + 1)
    ELSE <<m, e>>

\* The largest decimal exponent of a finite double (Number.MAX_VALUE is
\* about 1.8 * 10^308).
MaxExp10 == 308

\* The first nine digits of Number.MAX_VALUE, 1.7976931348623157 * 10^308: a
\* literal of 309 integer digits' magnitude is finite up to these digits.
MaxLead9 == 179769313

\* parseFloat(numStr) of a literal the number grammar accepted, from its parts.
\* An integer of at most six digits is JNum(n); another finite value is the
\* decimal m * 10^e in lowest terms; "inf" stands for a non-finite result.
ParseFloat(neg, intDs, fracDs, expNeg, expDs) ==
    LET me == StripZeros(DecimalVal(intDs \o fracDs),
                         (IF expNeg THEN 0 - DecimalVal(expDs) ELSE DecimalVal(expDs))
                           - Len(fracDs))
        m == me[1]
        e == me[2]
        sgn(x) == IF neg THEN 0 - x ELSE x
    IN  IF m # 0 /\ Len(NatToChars(m)) + e > MaxExp10 + 1 THEN [t |-> "inf"]
        ELSE IF /\ m # 0
                /\ Len(NatToChars(m)) + e = MaxExp10 + 1
                /\ Len(NatToChars(m)) <= 9
                /\ m * Pow10(9 - Len(NatToChars(m))) > MaxLead9
        THEN [t |-> "inf"]
        ELSE IF e >= 0 /\ Len(NatToChars(m)) + e <= 6 THEN JNum(sgn(m * Pow10(e)))
        ELSE [t |-> "num", v |-> sgn(m), e |-> e]

\* The end of scanNumber: parseFloat and the isFinite check; st is where
\* the literal starts and s6 where it ends.
numberToken(st, s6, value) ==
    IF value.t = "inf" THEN TokError("Invalid number: value out of range", s6)
    ELSE TokOk(createToken("Number", value, st.line, st.column, st.position), s6)

\* The digits of the exponent, ep = <<digits, the state after them>>.
scanExponentDigits(st, neg, intDs, fracDs, expNeg, ep) ==
    numberToken(st, ep[2], ParseFloat(neg, intDs, fracDs, expNeg, ep[1]))

\* The exponent part of scanNumber from s5, the state after "e" and its sign.
scanExponentSign(input, st, neg, intDs, fracDs, hasExp, expNeg, s5) ==
    IF hasExp /\ ~isDigit(peek(input, s5))
    THEN TokError("Invalid number: expected digit in exponent", s5)
    ELSE scanExponentDigits(st, neg, intDs, fracDs, expNeg,
                            IF hasExp THEN digitRun(input, s5, <<>>) ELSE << <<>>, s5 >>)

\* The exponent part of scanNumber from s4, the state after "e" or "E".
scanExponentMark(input, st, neg, intDs, fracDs, hasExp, s4) ==
    scanExponentSign(input, st, neg, intDs, fracDs, hasExp,
                     hasExp /\ peek(input, s4) = "-",
                     IF hasExp /\ peek(input, s4) \in {"+", "-"} THEN advance(s4) ELSE s4)

\* The exponent part of scanNumber, fp = <<fraction digits, the state after>>.
scanExponent(input, st, neg, intDs, fp) ==
    scanExponentMark(input, st, neg, intDs, fp[1], peek(input, fp[2]) \in {"e", "E"},
                     IF peek(input, fp[2]) \in {"e", "E"} THEN advance(fp[2]) ELSE fp[2])

\* A fraction part that may be a "." with no digit after it.
scanFractionNoDigit(input, st, neg, ip) ==
    scanExponent(input, st, neg, ip[1],
                 IF peek(input, ip[2]) = "."
                 THEN digitRun(input, advance(ip[2]), <<>>)
                 ELSE << <<>>, ip[2] >>)

\* The fraction part of scanNumber, ip = <<integer digits, the state after>>.
scanFraction(input, st, neg, ip) ==
    IF peek(input, ip[2]) = "." /\ ~isDigit(peek(input, advance(ip[2])))
    THEN TokError("Invalid number: expected digit after decimal point", advance(ip[2]))
    ELSE scanExponent(input, st, neg, ip[1],
                      IF peek(input, ip[2]) = "."
                      THEN digitRun(input, advance(ip[2]), <<>>)
                      ELSE << <<>>, ip[2] >>)

\* The integer part of scanNumber from s1, the state after the minus sign.
scanInteger(input, st, neg, s1) ==
    IF peek(input, s1) = "0" /\ isDigit(peek(input, advance(s1)))
    THEN TokError("Invalid number: leading zeros not allowed", advance(s1))
    ELSE IF ~isDigit(peek(input, s1))
    THEN TokError("Invalid number: expected digit after minus sign", s1)
    ELSE scanFraction(input, st, neg,
                      IF peek(input, s1) = "0" THEN << <<"0">>, advance(s1) >>
                      ELSE digitRun(input, s1, <<>>))

scanNumber(input, st) ==
    scanInteger(input, st, peek(input, st) = "-",
                IF peek(input, st) = "-" THEN advance(st) ELSE st)

\* readHexDigits(4): the state after four hex digits, or "null".
readHexDigits(input, st) ==
    IF \A i \in 1..4 :
          /\ st.position + i <= Len(input)
          /\ isHexDigit(input[st.position + i])
    THEN [ok |-> TRUE, hex |-> SubSeq(input, st.position + 1, st.position + 4),
          st |-> advanceBy(st, 4)]
    ELSE [ok |-> FALSE]

\* String.fromCharCode(parseInt(hex, 16)) for the code units the model's
\* alphabet names; any other code unit is kept as its escape.
FromCharCode(hex) ==
    CASE hex = <<"0", "0", "2", "2">> -> <<"\"">>
      [] hex = <<"0", "0", "0", "a">> -> <<"\n">>
      [] hex = <<"0", "0", "0", "A">> -> <<"\n">>
      [] hex = <<"0", "0", "6", "1">> -> <<"a">>
      [] hex = <<"0", "0", "2", "4">> -> <<"$">>
      [] OTHER -> <<"\\", "u">> \o hex

\* The hex digits found at st before the one that is missing: readHexDigits
\* has advanced past them when scanString reports the error.
HexPrefix(input, st) ==
    Cardinality({n \in 1..4 :
                    \A i \in 1..n : /\ st.position + i <= Len(input)
                                    /\ isHexDigit(input[st.position + i])})

RECURSIVE scanStringBody(_, _, _, _)

\* case 'u' of scanString: h is what readHexDigits(4) returned from s2.
scanUnicode(input, s2, value, start, h) ==
    IF ~h.ok
    THEN TokError("Invalid unicode escape sequence", advanceBy(s2, HexPrefix(input, s2)))
    ELSE scanStringBody(input, h.st, value \o FromCharCode(h.hex), start)

\* The switch taking an unknown escaped character as itself.
scanEscapeLenient(input, escaped, s2, value, start) ==
    CASE escaped = "\"" -> scanStringBody(input, s2, Append(value, "\""), start)
      [] escaped = "\\" -> scanStringBody(input, s2, Append(value, "\\"), start)
      [] escaped = "/" -> scanStringBody(input, s2, Append(value, "/"), start)
      [] escaped = "b" -> scanStringBody(input, s2, Append(value, "BS"), start)
      [] escaped = "f" -> scanStringBody(input, s2, Append(value, "\f"), start)
      [] escaped = "n" -> scanStringBody(input, s2, Append(value, "\n"), start)
      [] escaped = "r" -> scanStringBody(input, s2, Append(value, "\r"), start)
      [] escaped = "t" -> scanStringBody(input, s2, Append(value, "\t"), start)
      [] escaped = "u" -> scanUnicode(input, s2, value, start, readHexDigits(input, s2))
      [] OTHER -> scanStringBody(input, s2, Append(value, escaped), start)

\* The switch on the escaped character; s2 is the state after it.
scanEscape(input, escaped, s2, value, start) ==
    CASE escaped = "\"" -> scanStringBody(input, s2, Append(value, "\""), start)
      [] escaped = "\\" -> scanStringBody(input, s2, Append(value, "\\"), start)
      [] escaped = "/" -> scanStringBody(input, s2, Append(value, "/"), start)
      [] escaped = "b" -> scanStringBody(input, s2, Append(value, "BS"), start)
      [] escaped = "f" -> scanStringBody(input, s2, Append(value, "\f"), start)
      [] escaped = "n" -> scanStringBody(input, s2, Append(value, "\n"), start)
      [] escaped = "r" -> scanStringBody(input, s2, Append(value, "\r"), start)
      [] escaped = "t" -> scanStringBody(input, s2, Append(value, "\t"), start)
      [] escaped = "u" -> scanUnicode(input, s2, value, start, readHexDigits(input, s2))
      [] OTHER -> TokError("Invalid escape sequence", s2)

\* The loop of scanString, after the opening quote.
scanStringBody(input, st, value, start) ==
    IF isAtEnd(input, st) THEN TokError("Unterminated string", st)
    ELSE IF peek(input, st) = "\""
    THEN TokOk(createToken("String", JStr(value), start.line, start.column,
                           start.position),
               advance(st))
    ELSE IF peek(input, st) = "\\"
    THEN IF isAtEnd(input, advance(st)) THEN TokError("Unterminated string", advance(st))
         ELSE scanEscape(input, peek(input, advance(st)), advance(advance(st)), value,
                         start)
    ELSE IF peek(input, st) \in {"\n", "\r"}
    THEN TokError("Unterminated string (newline in string)", st)
    ELSE scanStringBody(input, advance(st), Append(value, peek(input, st)), start)

scanString(input, st) == scanStringBody(input, advance(st), <<>>, st)

\* nextToken after skipWhitespace, on the character at st.
scanToken(input, st, char) ==
    IF isAtEnd(input, st) THEN makeToken("EOF", JNull, 0, st)
    ELSE CASE char = "{" -> makeToken("LeftBrace", JStr(<<char>>), 1, st)
           [] char = "}" -> makeToken("RightBrace", JStr(<<char>>), 1, st)
           [] char = "[" -> makeToken("LeftBracket", JStr(<<char>>), 1, st)
           [] char = "]" -> makeToken("RightBracket", JStr(<<char>>), 1, st)
           [] char = ":" -> makeToken("Colon", JStr(<<char>>), 1, st)
           [] char = "," -> makeToken("Comma", JStr(<<char>>), 1, st)
           [] char = "\"" -> scanString(input, st)
           [] OTHER ->
                IF match(input, st, <<"t", "r", "u", "e">>)
                THEN makeToken("True", JBool(TRUE), 4, st)
                ELSE IF match(input, st, <<"f", "a", "l", "s", "e">>)
                THEN makeToken("False", JBool(FALSE), 5, st)
                ELSE IF match(input, st, <<"n", "u", "l", "l">>)
                THEN makeToken("Null", JNull, 4, st)
                ELSE IF isDigit(char) \/ char = "-" THEN scanNumber(input, st)
                ELSE TokError("Unexpected character", st)

\* After skipWhitespace, at state st.
tokenAt(input, st) == scanToken(input, st, peek(input, st))

nextToken(input, st0) == tokenAt(input, skipWhitespace(input, st0))

(***************************************************************************)
(* Parser                                                                  *)
(***************************************************************************)

ParseFail(err) == [ok |-> FALSE, err |-> err]

\* throwUnexpected(message): a TsonParseError at the current token's place.
throwUnexpected(message, ps) ==
    ParseFail([message |-> message, line |-> ps.current.line,
               column |-> ps.current.column, position |-> ps.current.position])

\* The parser after this.current = r, what nextToken returned.
Advanced(r) ==
    IF r.ok THEN [ok |-> TRUE, ps |-> [tz |-> r.st, current |-> r.tok]]
    ELSE ParseFail(r.err)

\* this.current = this.tokenizer.nextToken()
Advance(input, ps) == Advanced(nextToken(input, ps.tz))

\* new Parser(tokenizer, input): reads the first token.
ParserInit(input) == Advance(input, [tz |-> TokenizerInit, current |-> JNull])

consume(input, ps, type, message) ==
    IF ps.current.type # type THEN throwUnexpected(message, ps)
    ELSE Advance(input, ps)

\* The result of a parse method: val, with the parser as a left it.
Returned(a, val) == IF a.ok THEN [ok |-> TRUE, val |-> val, ps |-> a.ps] ELSE a

\* A value parsed, then the next token read.
Parsed(input, ps, val) == Returned(Advance(input, ps), val)

RECURSIVE parseValue(_, _)
RECURSIVE parseObjectLoop(_, _, _)
RECURSIVE parseArrayLoop(_, _, _)

\* parseObject after a value: a3 is the parser after the comma.
objectAfterComma(input, a3, obj2) ==
    IF ~a3.ok THEN a3
    ELSE IF a3.ps.current.type = "RightBrace"
    THEN throwUnexpected("Trailing comma in object is not allowed", a3.ps)
    ELSE parseObjectLoop(input, a3.ps, obj2)

\* parseObject after obj[key] = value: a comma, or the closing brace.
objectAfterValue(input, ps, obj2) ==
    IF ps.current.type = "Comma" THEN objectAfterComma(input, Advance(input, ps), obj2)
    ELSE Returned(consume(input, ps, "RightBrace", "Expected } after object"),
                  JObj(obj2))

\* obj[key] = this.parseValue(), pv being what parseValue returned.
objectValue(input, obj, key, pv) ==
    IF ~pv.ok THEN pv ELSE objectAfterValue(input, pv.ps, ObjSet(obj, key, pv.val))

\* parseObject after the colon was consumed, as a2.
objectAfterColon(input, obj, key, a2) ==
    IF ~a2.ok THEN a2 ELSE objectValue(input, obj, key, parseValue(input, a2.ps))

\* parseObject after the key was read, a1 being the parser after it.
objectAfterKey(input, obj, key, a1) ==
    IF ~a1.ok THEN a1
    ELSE objectAfterColon(input, obj, key,
                          consume(input, a1.ps, "Colon", "Expected : after object key"))

\* The for (;;) of parseObject, at a key.
parseObjectLoop(input, ps, obj) ==
    IF ps.current.type # "String"
    THEN throwUnexpected("Expected string key in object", ps)
    ELSE objectAfterKey(input, obj, ps.current.value.v, Advance(input, ps))

\* parseObject after the opening brace was consumed, as a.
objectOpened(input, a) ==
    IF ~a.ok THEN a
    ELSE IF a.ps.current.type = "RightBrace" THEN Parsed(input, a.ps, JObj(<<>>))
    ELSE parseObjectLoop(input, a.ps, <<>>)

parseObject(input, ps) ==
    objectOpened(input, consume(input, ps, "LeftBrace", "Expected {"))

\* An array that may end in a comma.
arrayAfterCommaLenient(input, a3, arr2) ==
    IF ~a3.ok THEN a3
    ELSE IF a3.ps.current.type = "RightBracket" THEN Parsed(input, a3.ps, JArr(arr2))
    ELSE parseArrayLoop(input, a3.ps, arr2)

\* parseArray after a value: a3 is the parser after the comma.
arrayAfterComma(input, a3, arr2) ==
    IF ~a3.ok THEN a3
    ELSE IF a3.ps.current.type = "RightBracket"
    THEN throwUnexpected("Trailing comma in array is not allowed", a3.ps)
    ELSE parseArrayLoop(input, a3.ps, arr2)

\* parseArray after arr.push(value): a comma, or the closing bracket.
arrayAfterValue(input, ps, arr2) ==
    IF ps.current.type = "Comma" THEN arrayAfterComma(input, Advance(input, ps), arr2)
    ELSE Returned(consume(input, ps, "RightBracket", "Expected ] after array"),
                  JArr(arr2))

\* arr.push(this.parseValue()), pv being what parseValue returned.
arrayValue(input, arr, pv) ==
    IF ~pv.ok THEN pv ELSE arrayAfterValue(input, pv.ps, Append(arr, pv.val))

\* The for (;;) of parseArray, at a value.
parseArrayLoop(input, ps, arr) == arrayValue(input, arr, parseValue(input, ps))

\* parseArray after the opening bracket was consumed, as a.
arrayOpened(input, a) ==
    IF ~a.ok THEN a
    ELSE IF a.ps.current.type = "RightBracket" THEN Parsed(input, a.ps, JArr(<<>>))
    ELSE parseArrayLoop(input, a.ps, <<>>)

parseArray(input, ps) ==
    arrayOpened(input, consume(input, ps, "LeftBracket", "Expected ["))

parseValue(input, ps) ==
    CASE ps.current.type = "LeftBrace" -> parseObject(input, ps)
      [] ps.current.type = "LeftBracket" -> parseArray(input, ps)
      [] ps.current.type \in {"String", "Number"} -> Parsed(input, ps, ps.current.value)
      [] ps.current.type = "True" -> Parsed(input, ps, JBool(TRUE))
      [] ps.current.type = "False" -> Parsed(input, ps, JBool(FALSE))
      [] ps.current.type = "Null" -> Parsed(input, ps, JNull)
      [] OTHER -> throwUnexpected("Expected a JSON value", ps)

\* The result of parseRoot: the value, once the EOF token was consumed as a.
rootEnd(val, a) == IF ~a.ok THEN a ELSE [ok |-> TRUE, val |-> val]

\* A root that does not ask for the end of the input.
rootValueAnyRest(input, pv) == IF ~pv.ok THEN pv ELSE [ok |-> TRUE, val |-> pv.val]

\* parseRoot after parseValue returned pv.
rootValue(input, pv) ==
    IF ~pv.ok THEN pv
    ELSE rootEnd(pv.val, consume(input, pv.ps, "EOF", "Expected end of input"))

parseRoot(input, ps) == rootValue(input, parseValue(input, ps))

\* parseJson after the Parser's construction returned p.
parserRun(text, p) == IF ~p.ok THEN p ELSE parseRoot(text, p.ps)

\* parseJson(text): [ok |-> TRUE, val |-> the JSON tree], or the TsonParseError.
parseJson(text) == parserRun(text, ParserInit(text))

(***************************************************************************)
(* Runtime values                                                          *)
(*                                                                         *)
(* A runtime value is a record tagged by t.  Primitives and the leaf       *)
(* objects (which hold no other value) carry their content:                *)
(*   null, bool, num (finite), nonfinite (NaN, Infinity, -Infinity), str,  *)
(*   undefined, function, symbol, bigint, date (v: the time value, -1 for  *)
(*   an Invalid Date), regexp, url.                                        *)
(* [t |-> "ref", v |-> r] is the object with identity r, held in a heap    *)
(* cell [kind, keys, slots]:                                               *)
(*   "array"  slots are the elements                                       *)
(*   "object" a plain object, keys[i] is the key of slots[i]               *)
(*   "set"    a Set, slots are its elements in insertion order             *)
(*   "map"    a Map, slots are key1, value1, key2, value2, ...             *)
(*   "tojson" an object with a toJSON method, which returns slots[1]       *)
(* Revival builds values without sharing; they are trees with the same     *)
(* leaves and "array", "object", "set", "map", "user" nodes.               *)
(***************************************************************************)

VNull == [t |-> "null"]
VBool(b) == [t |-> "bool", v |-> b]
VNum(n) == [t |-> "num", v |-> n]
VNonFinite(which) == [t |-> "nonfinite", v |-> which]
VStr(s) == [t |-> "str", v |-> s]
VUndefined == [t |-> "undefined"]
VFunction == [t |-> "function"]
VSymbol == [t |-> "symbol"]
VBigInt(n) == [t |-> "bigint", v |-> n]
VDate(n) == [t |-> "date", v |-> n]
VRegExp(source, flags) == [t |-> "regexp", source |-> source, flags |-> flags]
VUrl(href) == [t |-> "url", v |-> href]
VRef(r) == [t |-> "ref", v |-> r]

Cell(kind, keys, slots) == [kind |-> kind, keys |-> keys, slots |-> slots]

\* What a handler's test can tell apart: typeof, instanceof, Array.isArray.
ClassOf(v, heap) == IF v.t = "ref" THEN heap[v.v].kind ELSE v.t

\* typeof value === 'object' && value !== null
IsObject(v) == v.t \in {"ref", "date", "regexp", "url"}

\* Date.prototype.toISOString, as "d" and the decimal time value.
DateToISO(n) == <<"d">> \o NatToChars(n)

\* new Date(string).getTime(): the time value, or -1 (NaN) for a string no
\* date format matches.  Several strings denote one date: leading zeros.
ParseDate(s) ==
    IF /\ Len(s) >= 2
       /\ s[1] = "d"
       /\ \A i \in 2..Len(s) : isDigit(s[i])
    THEN DecimalVal(Tail(s))
    ELSE 0 - 1

\* BigInt(string): the integer of an optionally signed decimal string, 0 for
\* the empty string, a SyntaxError ("err") for anything else.
ParseBigInt(s) ==
    IF s = <<>> THEN [ok |-> TRUE, v |-> 0]
    ELSE IF \A i \in 1..Len(s) : isDigit(s[i]) THEN [ok |-> TRUE, v |-> DecimalVal(s)]
    ELSE IF /\ Len(s) >= 2
            /\ s[1] = "-"
            /\ \A i \in 2..Len(s) : isDigit(s[i])
    THEN [ok |-> TRUE, v |-> 0 - DecimalVal(Tail(s))]
    ELSE [ok |-> FALSE, v |-> 0]

(***************************************************************************)
(* Handlers                                                                *)
(***************************************************************************)

\* A handler object: id is its identity, name its name, accepts the classes
\* of values its test returns true for, kind its serialize/deserialize pair.
Handler(id, name, accepts, kind) ==
    [id |-> id, name |-> name, accepts |-> accepts, kind |-> kind]

dateHandler == Handler(1, <<"D", "a", "t", "e">>, {"date"}, "Date")
bigintHandler == Handler(2, <<"B", "i", "g", "I", "n", "t">>, {"bigint"}, "BigInt")
regexpHandler == Handler(3, <<"R", "e", "g", "E", "x", "p">>, {"regexp"}, "RegExp")
urlHandler == Handler(4, <<"U", "R", "L">>, {"url"}, "URL")
mapHandler == Handler(5, <<"M", "a", "p">>, {"map"}, "Map")
setHandler == Handler(6, <<"S", "e", "t">>, {"set"}, "Set")

builtinHandlers ==
    <<dateHandler, bigintHandler, regexpHandler, urlHandler, mapHandler, setHandler>>

\* h.test(value)
Test(h, v, heap) == ClassOf(v, heap) \in h.accepts

\* findHandler returning the last handler whose test accepts the value.
findHandlerLast(handlerList, v, heap) ==
    LET hits == {i \in 1..Len(handlerList) : Test(handlerList[i], v, heap)}
    IN  IF hits = {} THEN <<>>
        ELSE <<handlerList[CHOOSE i \in hits : \A j \in hits : i >= j]>>

\* handlerList.find((h) => h.test(value)): <<h>>, or <<>> for undefined.
findHandler(handlerList, v, heap) ==
    LET hits == {i \in 1..Len(handlerList) : Test(handlerList[i], v, heap)}
    IN  IF hits = {} THEN <<>>
        ELSE <<handlerList[CHOOSE i \in hits : \A j \in hits : i <= j]>>

\* handlers.get(name): <<h>>, or <<>> for undefined.
getHandler(handlers, name) ==
    IF name \in DOMAIN handlers THEN <<handlers[name]>> ELSE <<>>

(***************************************************************************)
(* Conversion engine                                                       *)
(*                                                                         *)
(* env = [list, heap, strict]: the instance's handlerList, the heap of the *)
(* caller's objects and the strict option.  st = [top, ctx, calls] is what *)
(* one stringify call mutates: top is the WeakSet handed to convertValue,  *)
(* ctx the WeakSet createContext closed over, calls the handler.serialize  *)
(* invocations so far, each << handler id, value >>.  cur names the        *)
(* WeakSet ("top" or "ctx") that is this call's seen parameter.  d is the  *)
(* call stack left.  A result is [k, val, err, st] with k "ok", "skip"     *)
(* (the SKIP symbol) or "err" (an exception).                              *)
(***************************************************************************)

COk(val, st) == [k |-> "ok", val |-> val, err |-> "", st |-> st]
CSkip(st) == [k |-> "skip", val |-> JNull, err |-> "", st |-> st]
CErr(err, st) == [k |-> "err", val |-> JNull, err |-> err, st |-> st]

CircularError == "Circular reference detected"
StackError == "Maximum call stack size exceeded"

\* The errors strict mode raises.
StrictErrors ==
    {"Infinity/NaN not allowed in JSON", "Cannot serialize undefined",
     "Cannot serialize function", "Cannot serialize symbol",
     "BigInt requires a handler", "Cannot serialize value"}

SeenHas(st, cur, r) == IF cur = "top" THEN r \in st.top ELSE r \in st.ctx

SeenAdd(st, cur, r) ==
    IF cur = "top" THEN [st EXCEPT !.top = @ \cup {r}]
    ELSE [st EXCEPT !.ctx = @ \cup {r}]

SeenDelete(st, cur, r) ==
    IF cur = "top" THEN [st EXCEPT !.top = @ \ {r}]
    ELSE [st EXCEPT !.ctx = @ \ {r}]

\* { $type: handler.name, $value: payload }
Tagged(name, payload) == JObj(<< <<TypeKey, JStr(name)>>, <<ValueKey, payload>> >>)

RECURSIVE DefineAll(_, _, _)
DefineAll(keys, slots, acc) ==
    IF keys = <<>> THEN acc
    ELSE DefineAll(Tail(keys), Tail(slots), ObjDefine(acc, Head(keys), Head(slots)))

\* Object.entries(value) of a heap cell that reached the plain-object branch:
\* a plain object's own properties; a Set or a Map has no own enumerable one.
Entries(cell) ==
    IF cell.kind = "object" THEN DefineAll(cell.keys, cell.slots, <<>>) ELSE <<>>

\* What a user-defined handler's serialize returns for a value that holds no
\* other value.
LeafPayload(v) ==
    CASE v.t = "null" -> JNull
      [] v.t = "bool" -> JBool(v.v)
      [] v.t = "num" -> JNum(v.v)
      [] v.t = "str" -> JStr(v.v)
      [] v.t = "bigint" -> JStr(NumToChars(v.v))
      [] v.t = "date" -> JNum(v.v)
      [] v.t = "url" -> JStr(v.v)
      [] OTHER -> JStr(<<"x">>)

RECURSIVE convertValue(_, _, _, _, _)
RECURSIVE ctxSerializeAll(_, _, _, _, _)
RECURSIVE stringifyNestedAll(_, _, _, _, _)
RECURSIVE ctxSerializeRetryAll(_, _, _, _, _)
RECURSIVE convertItems(_, _, _, _, _, _)
RECURSIVE convertEntries(_, _, _, _, _, _)

\* ctx.serialize(value) of createContext: convertValue with the context's own
\* WeakSet; SKIP becomes null, or a TypeError in strict mode.
ctxSerialize(env, v, st, d) ==
    LET result == convertValue(env, v, "ctx", st, d)
    IN  IF result.k = "skip"
        THEN IF env.strict THEN CErr("Cannot serialize value", result.st)
             ELSE COk(JNull, result.st)
        ELSE result

\* items.map((v) => ctx.serialize(v)), left to right, until one throws.
ctxSerializeAll(env, items, st, d, acc) ==
    IF items = <<>> THEN COk(JArr(acc), st)
    ELSE LET r == ctxSerialize(env, Head(items), st, d)
         IN  IF r.k = "err" THEN r
             ELSE ctxSerializeAll(env, Tail(items), r.st, d, Append(acc, r.val))

\* A user-defined handler's try { ctx.serialize(x) } catch { ctx.serialize(x) }
\* given the result r of the first call.
ctxSerializeAgain(env, v, r, d) ==
    IF r.k = "err" THEN ctxSerialize(env, v, r.st, d) ELSE r

\* items.map of a handler that retries each ctx.serialize call once.
ctxSerializeRetryAll(env, items, st, d, acc) ==
    IF items = <<>> THEN COk(JArr(acc), st)
    ELSE LET r == ctxSerializeAgain(env, Head(items),
                                    ctxSerialize(env, Head(items), st, d), d)
         IN  IF r.k = "err" THEN r
             ELSE ctxSerializeRetryAll(env, Tail(items), r.st, d, Append(acc, r.val))

\* What tson.stringify(x) inside a handler's serialize returns or throws, r
\* being what the call's convertValue returned or threw: the text, a string.
\* The WeakSets of the call in flight, st.top and st.ctx, are as they were;
\* the serialize invocations of the inner call are recorded after those of
\* the outer one.
nestedReturn(r, st) ==
    IF r.k = "err"
    THEN CErr(r.err, [st EXCEPT !.calls = r.st.calls])
    ELSE COk(JStr(stringifyJson(IF r.k = "skip" THEN JNull ELSE r.val, <<>>, FALSE)),
             [st EXCEPT !.calls = r.st.calls])

\* A stringify call inside serialize that converts with the WeakSets of the
\* call in flight.
stringifyNestedSharing(env, v, st, d) ==
    LET r == convertValue([env EXCEPT !.strict = FALSE], v, "top", st, d)
    IN  IF r.k = "err" THEN r
        ELSE COk(JStr(stringifyJson(IF r.k = "skip" THEN JNull ELSE r.val,
                                    <<>>, FALSE)), r.st)

\* tson.stringify(x) called on the same instance from inside a handler's
\* serialize: the call makes its own two WeakSets and context.
stringifyNested(env, v, st, d) ==
    nestedReturn(convertValue([env EXCEPT !.strict = FALSE], v, "top",
                              [top |-> {}, ctx |-> {}, calls |-> st.calls], d), st)

\* items.map((x) => tson.stringify(x))
stringifyNestedAll(env, items, st, d, acc) ==
    IF items = <<>> THEN COk(JArr(acc), st)
    ELSE LET r == stringifyNested(env, Head(items), st, d)
         IN  IF r.k = "err" THEN r
             ELSE stringifyNestedAll(env, Tail(items), r.st, d, Append(acc, r.val))

\* The [key, value] pairs of a Map's slots.
Pairs(items) == [i \in 1..(Len(items) \div 2) |-> <<items[2 * i - 1], items[2 * i]>>]

PairUp(js) == [i \in 1..(Len(js) \div 2) |-> JArr(<<js[2 * i - 1], js[2 * i]>>)]

\* handler.serialize(value, ctx) of the built-in handlers and of a
\* user-defined handler (which serializes what the value holds through ctx).
serialize(env, h, v, st, d) ==
    CASE h.kind = "Date" /\ v.t = "date" ->
            IF v.v < 0 THEN CErr("Invalid time value", st)
            ELSE COk(JStr(DateToISO(v.v)), st)
      [] h.kind = "BigInt" /\ v.t = "bigint" -> COk(JStr(NumToChars(v.v)), st)
      [] h.kind = "RegExp" /\ v.t = "regexp" ->
            COk(JObj(<< << <<"s", "o", "u", "r", "c", "e">>, JStr(v.source) >>,
                        << <<"f", "l", "a", "g", "s">>, JStr(v.flags) >> >>), st)
      [] h.kind = "URL" /\ v.t = "url" -> COk(JStr(v.v), st)
      [] h.kind = "Map" /\ v.t = "ref" ->
            LET r == ctxSerializeAll(env, env.heap[v.v].slots, st, d, <<>>)
            IN  IF r.k = "err" THEN r ELSE COk(JArr(PairUp(r.val.v)), r.st)
      [] h.kind = "nested" /\ v.t = "ref" ->
            stringifyNestedAll(env, env.heap[v.v].slots, st, d, <<>>)
      [] h.kind = "retry" /\ v.t = "ref" ->
            ctxSerializeRetryAll(env, env.heap[v.v].slots, st, d, <<>>)
      [] v.t = "ref" -> ctxSerializeAll(env, env.heap[v.v].slots, st, d, <<>>)
      [] OTHER -> COk(LeafPayload(v), st)

\* value.map((item) => convertValue(item, ...)) with SKIP as null.
convertItems(env, items, cur, st, d, acc) ==
    IF items = <<>> THEN COk(JArr(acc), st)
    ELSE LET r == convertValue(env, Head(items), cur, st, d)
         IN  IF r.k = "err" THEN r
             ELSE convertItems(env, Tail(items), cur, r.st, d,
                               Append(acc, IF r.k = "skip" THEN JNull ELSE r.val))

\* convertEntries storing null for a SKIP result, as an array does.
convertEntriesNulling(env, entries, cur, st, d, acc) ==
    IF entries = <<>> THEN COk(JObj(acc), st)
    ELSE LET r == convertValue(env, Head(entries)[2], cur, st, d)
         IN  IF r.k = "err" THEN r
             ELSE convertEntries(env, Tail(entries), cur, r.st, d,
                                 ObjSet(acc, Head(entries)[1],
                                        IF r.k = "skip" THEN JNull ELSE r.val))

\* The for...of over Object.entries(value): a SKIP result omits the key.
convertEntries(env, entries, cur, st, d, acc) ==
    IF entries = <<>> THEN COk(JObj(acc), st)
    ELSE LET r == convertValue(env, Head(entries)[2], cur, st, d)
         IN  IF r.k = "err" THEN r
             ELSE convertEntries(env, Tail(entries), cur, r.st, d,
                                 IF r.k = "skip" THEN acc
                                 ELSE ObjSet(acc, Head(entries)[1], r.val))

\* The handler branch emitting the payload with the handler's name beside it
\* under the key "type".
convertHandledFlat(env, h, v, cur, st, d) ==
    IF v.t = "ref" /\ SeenHas(st, cur, v.v) THEN CErr(CircularError, st)
    ELSE LET st1 == IF v.t = "ref" THEN SeenAdd(st, cur, v.v) ELSE st
             st2 == [st1 EXCEPT !.calls = Append(@, <<h.id, v>>)]
             r == serialize(env, h, v, st2, d - 1)
             st3 == IF v.t = "ref" THEN SeenDelete(r.st, cur, v.v) ELSE r.st
         IN  IF r.k = "err" THEN CErr(r.err, st3)
             ELSE COk(JObj(<< <<TypeKey, JStr(h.name)>>, <<ValueKey, r.val>>,
                              << <<"t", "y", "p", "e">>, JStr(h.name)>> >>), st3)

\* The handler branch of convertValue: guard, serialize, finally unguard.
convertHandled(env, h, v, cur, st, d) ==
    IF v.t = "ref" /\ SeenHas(st, cur, v.v) THEN CErr(CircularError, st)
    ELSE LET st1 == IF v.t = "ref" THEN SeenAdd(st, cur, v.v) ELSE st
             st2 == [st1 EXCEPT !.calls = Append(@, <<h.id, v>>)]
             r == serialize(env, h, v, st2, d - 1)
             st3 == IF v.t = "ref" THEN SeenDelete(r.st, cur, v.v) ELSE r.st
         IN  IF r.k = "err" THEN CErr(r.err, st3)
             ELSE COk(Tagged(h.name, r.val), st3)

\* convertArray without the seen.delete after the items.
convertArrayKeepSeen(env, v, cur, st, d) ==
    IF SeenHas(st, cur, v.v) THEN CErr(CircularError, st)
    ELSE convertItems(env, env.heap[v.v].slots, cur, SeenAdd(st, cur, v.v), d - 1, <<>>)

\* The array branch of convertValue; seen.delete is skipped when an item throws.
convertArray(env, v, cur, st, d) ==
    IF SeenHas(st, cur, v.v) THEN CErr(CircularError, st)
    ELSE LET r == convertItems(env, env.heap[v.v].slots, cur,
                               SeenAdd(st, cur, v.v), d - 1, <<>>)
         IN  IF r.k = "err" THEN r ELSE COk(r.val, SeenDelete(r.st, cur, v.v))

\* The plain-object branch of convertValue.
convertObject(env, v, cur, st, d) ==
    IF SeenHas(st, cur, v.v) THEN CErr(CircularError, st)
    ELSE LET r == convertEntries(env, Entries(env.heap[v.v]), cur,
                                 SeenAdd(st, cur, v.v), d - 1, <<>>)
         IN  IF r.k = "err" THEN r ELSE COk(r.val, SeenDelete(r.st, cur, v.v))

\* convertPrimitive without the strict checks.
convertPrimitiveLenient(env, v, st) ==
    CASE v.t = "null" -> COk(JNull, st)
      [] v.t = "str" -> COk(JStr(v.v), st)
      [] v.t = "bool" -> COk(JBool(v.v), st)
      [] v.t = "num" -> COk(JNum(v.v), st)
      [] v.t = "nonfinite" -> COk(JNull, st)
      [] OTHER -> CSkip(st)

\* convertPrimitive treating a non-finite number as it treats undefined.
convertPrimitiveSkipNonFinite(env, v, st) ==
    CASE v.t = "null" -> COk(JNull, st)
      [] v.t = "str" -> COk(JStr(v.v), st)
      [] v.t = "bool" -> COk(JBool(v.v), st)
      [] v.t = "num" -> COk(JNum(v.v), st)
      [] v.t = "nonfinite" ->
            IF env.strict THEN CErr("Infinity/NaN not allowed in JSON", st)
            ELSE CSkip(st)
      [] OTHER ->
            IF env.strict THEN CErr("Cannot serialize value", st) ELSE CSkip(st)

\* The primitives switch of convertValue: null, string, boolean, number and
\* the types with no JSON form.
convertPrimitive(env, v, st) ==
    CASE v.t = "null" -> COk(JNull, st)
      [] v.t = "str" -> COk(JStr(v.v), st)
      [] v.t = "bool" -> COk(JBool(v.v), st)
      [] v.t = "num" -> COk(JNum(v.v), st)
      [] v.t = "nonfinite" ->
            IF env.strict THEN CErr("Infinity/NaN not allowed in JSON", st)
            ELSE COk(JNull, st)
      [] v.t = "undefined" ->
            IF env.strict THEN CErr("Cannot serialize undefined", st) ELSE CSkip(st)
      [] v.t = "function" ->
            IF env.strict THEN CErr("Cannot serialize function", st) ELSE CSkip(st)
      [] v.t = "symbol" ->
            IF env.strict THEN CErr("Cannot serialize symbol", st) ELSE CSkip(st)
      [] v.t = "bigint" ->
            IF env.strict THEN CErr("BigInt requires a handler", st) ELSE CSkip(st)

Primitives ==
    {"null", "str", "bool", "num", "nonfinite", "undefined", "function", "symbol",
     "bigint"}

convertValue(env, v, cur, st, d) ==
    IF d = 0 THEN CErr(StackError, st)
    ELSE
    LET hs == findHandler(env.list, v, env.heap)
    IN
    IF hs # <<>> THEN convertHandled(env, hs[1], v, cur, st, d)
    ELSE IF v.t \in Primitives THEN convertPrimitive(env, v, st)
    ELSE
    CASE v.t = "ref" /\ env.heap[v.v].kind = "array" -> convertArray(env, v, cur, st, d)
      [] v.t = "ref" /\ env.heap[v.v].kind = "tojson" ->
            convertValue(env, env.heap[v.v].slots[1], cur, st, d - 1)
      \* Date.prototype.toJSON: the ISO string, null for an Invalid Date
      [] v.t = "date" ->
            convertValue(env, IF v.v < 0 THEN VNull ELSE VStr(DateToISO(v.v)),
                         cur, st, d - 1)
      \* URL.prototype.toJSON: the href
      [] v.t = "url" -> convertValue(env, VStr(v.v), cur, st, d - 1)
      \* a RegExp has no toJSON and no own enumerable property
      [] v.t = "regexp" -> COk(JObj(<<>>), st)
      [] OTHER -> convertObject(env, v, cur, st, d)

(***************************************************************************)
(* Revival engine                                                          *)
(*                                                                         *)
(* A result is [ok, val, err, calls]: the revived value or the exception,  *)
(* and the handler.deserialize invocations so far, each                    *)
(* << handler id, payload >>.                                              *)
(***************************************************************************)

ROk(val, calls) == [ok |-> TRUE, val |-> val, err |-> "", calls |-> calls]
RErr(err, calls) == [ok |-> FALSE, val |-> VNull, err |-> err, calls |-> calls]

UnknownTypeError == "Unknown type"
TagShapeError == "Invalid tagged value shape"

TArray(items) == [t |-> "array", v |-> items]
TObject(props) == [t |-> "object", v |-> props]
TSet(items) == [t |-> "set", v |-> items]
TMap(pairs) == [t |-> "map", v |-> pairs]
TUser(id, v) == [t |-> "user", h |-> id, v |-> v]

\* SameValueZero of two revived values: primitives by value, objects (each
\* revived object is a new one) never.
SameValueZero(a, b) ==
    /\ a.t = b.t
    /\ a.t \in {"null", "bool", "num", "str", "undefined", "bigint"}
    /\ a = b

\* new Set(items): the first of each run of SameValueZero values is kept.
RECURSIVE NewSet(_, _)
NewSet(items, acc) ==
    IF items = <<>> THEN acc
    ELSE NewSet(Tail(items),
                IF \E i \in 1..Len(acc) : SameValueZero(acc[i], Head(items))
                THEN acc ELSE Append(acc, Head(items)))

\* new Map(pairs): a later value for a key replaces the earlier one in place.
RECURSIVE NewMap(_, _)
NewMap(pairs, acc) ==
    IF pairs = <<>> THEN acc
    ELSE LET k == Head(pairs)[1]
             hit == {i \in 1..Len(acc) : SameValueZero(acc[i][1], k)}
         IN  NewMap(Tail(pairs),
                    IF hit = {} THEN Append(acc, Head(pairs))
                    ELSE [i \in 1..Len(acc) |->
                             IF i \in hit THEN <<acc[i][1], Head(pairs)[2]>> ELSE acc[i]])

RECURSIVE reviveValue(_, _, _)
RECURSIVE reviveItems(_, _, _, _)
RECURSIVE reviveEntries(_, _, _, _)
RECURSIVE reviveMapEntries(_, _, _, _)

\* value.map((v) => reviveValue(v, ctx)), left to right, until one throws.
reviveItems(handlers, items, calls, acc) ==
    IF items = <<>> THEN ROk(acc, calls)
    ELSE LET r == reviveValue(handlers, Head(items), calls)
         IN  IF ~r.ok THEN r
             ELSE reviveItems(handlers, Tail(items), r.calls, Append(acc, r.val))

\* The for...of over Object.entries(value) of the regular-object branch.
reviveEntries(handlers, entries, calls, acc) ==
    IF entries = <<>> THEN ROk(acc, calls)
    ELSE LET r == reviveValue(handlers, Head(entries)[2], calls)
         IN  IF ~r.ok THEN r
             ELSE reviveEntries(handlers, Tail(entries), r.calls,
                                ObjSet(acc, Head(entries)[1], r.val))

\* The data.map of mapHandler.deserialize: each entry a 2-element array.
reviveMapEntries(handlers, entries, calls, acc) ==
    IF entries = <<>> THEN ROk(acc, calls)
    ELSE LET e == Head(entries)
         IN  IF e.t # "arr" \/ Len(e.v) # 2
             THEN RErr("Map: each entry must be [key, value]", calls)
             ELSE LET rk == reviveValue(handlers, e.v[1], calls)
                  IN  IF ~rk.ok THEN rk
                      ELSE LET rv == reviveValue(handlers, e.v[2], rk.calls)
                           IN  IF ~rv.ok THEN rv
                               ELSE reviveMapEntries(handlers, Tail(entries), rv.calls,
                                                     Append(acc, <<rk.val, rv.val>>))

SourceKey == <<"s", "o", "u", "r", "c", "e">>
FlagsKey == <<"f", "l", "a", "g", "s">>

\* handler.deserialize(data, ctx) of the built-in handlers and of a
\* user-defined handler (which revives its payload through ctx).
deserialize(handlers, h, data, calls) ==
    CASE h.kind = "Date" ->
            IF data.t # "str" THEN RErr("Date: expected ISO string", calls)
            ELSE IF ParseDate(data.v) < 0 THEN RErr("Date: invalid date string", calls)
            ELSE ROk(VDate(ParseDate(data.v)), calls)
      [] h.kind = "BigInt" ->
            IF data.t # "str" THEN RErr("BigInt: expected string", calls)
            ELSE IF ~ParseBigInt(data.v).ok THEN RErr("Cannot convert to a BigInt", calls)
            ELSE ROk(VBigInt(ParseBigInt(data.v).v), calls)
      [] h.kind = "RegExp" ->
            IF data.t # "obj" THEN RErr("RegExp: expected {source, flags}", calls)
            ELSE IF \/ ~ObjHas(data.v, SourceKey)
                    \/ ~ObjHas(data.v, FlagsKey)
                    \/ ObjGet(data.v, SourceKey).t # "str"
                    \/ ObjGet(data.v, FlagsKey).t # "str"
            THEN RErr("RegExp: expected {source: string, flags: string}", calls)
            ELSE ROk(VRegExp(ObjGet(data.v, SourceKey).v, ObjGet(data.v, FlagsKey).v),
                     calls)
      [] h.kind = "URL" ->
            IF data.t # "str" THEN RErr("URL: expected string", calls)
            ELSE IF ~(\E i \in 1..Len(data.v) : data.v[i] = ":")
            THEN RErr("Invalid URL", calls)
            ELSE ROk(VUrl(data.v), calls)
      [] h.kind = "Set" ->
            IF data.t # "arr" THEN RErr("Set: expected array", calls)
            ELSE LET r == reviveItems(handlers, data.v, calls, <<>>)
                 IN  IF ~r.ok THEN r ELSE ROk(TSet(NewSet(r.val, <<>>)), r.calls)
      [] h.kind = "Map" ->
            IF data.t # "arr" THEN RErr("Map: expected array of entries", calls)
            ELSE LET r == reviveMapEntries(handlers, data.v, calls, <<>>)
                 IN  IF ~r.ok THEN r ELSE ROk(TMap(NewMap(r.val, <<>>)), r.calls)
      [] OTHER ->
            LET r == reviveValue(handlers, data, calls)
            IN  IF ~r.ok THEN r ELSE ROk(TUser(h.id, r.val), r.calls)

\* A shape check that lets every key set pass.
exactTagKeysAny(props) == TRUE

\* Object.keys(value) holds $type, $value and nothing else (the condition
\* of the throw, negated).
exactTagKeys(props) ==
    /\ Len(props) = 2
    /\ ObjHas(props, TypeKey)
    /\ ObjHas(props, ValueKey)

\* The tagged-value branch answering null for a name it does not know.
reviveTaggedUnknownAsNull(handlers, value, calls) ==
    IF ~exactTagKeys(value.v) THEN RErr(TagShapeError, calls)
    ELSE IF getHandler(handlers, ObjGet(value.v, TypeKey).v) = <<>> THEN ROk(VNull, calls)
    ELSE deserialize(handlers, getHandler(handlers, ObjGet(value.v, TypeKey).v)[1],
                     ObjGet(value.v, ValueKey),
                     Append(calls, <<getHandler(handlers, ObjGet(value.v, TypeKey).v)[1].id,
                                     ObjGet(value.v, ValueKey)>>))

\* The tagged-value branch of reviveValue: the shape check, the lookup of
\* value.$type, and handler.deserialize(value.$value, ctx).
reviveTagged(handlers, value, calls) ==
    IF ~exactTagKeys(value.v) THEN RErr(TagShapeError, calls)
    ELSE IF getHandler(handlers, ObjGet(value.v, TypeKey).v) = <<>>
    THEN RErr(UnknownTypeError, calls)
    ELSE deserialize(handlers, getHandler(handlers, ObjGet(value.v, TypeKey).v)[1],
                     ObjGet(value.v, ValueKey),
                     Append(calls, <<getHandler(handlers, ObjGet(value.v, TypeKey).v)[1].id,
                                     ObjGet(value.v, ValueKey)>>))

reviveValue(handlers, value, calls) ==
    IF value.t = "null" THEN ROk(VNull, calls)
    ELSE IF value.t = "arr"
    THEN LET r == reviveItems(handlers, value.v, calls, <<>>)
         IN  IF ~r.ok THEN r ELSE ROk(TArray(r.val), r.calls)
    ELSE IF value.t # "obj" THEN ROk(value, calls)
    ELSE IF isTaggedValue(value) THEN reviveTagged(handlers, value, calls)
    ELSE LET r == reviveEntries(handlers, value.v, calls, <<>>)
         IN  IF ~r.ok THEN r ELSE ROk(TObject(r.val), r.calls)

(***************************************************************************)
(* The public API of one instance                                          *)
(***************************************************************************)

\* The call stack one stringify call may use before the engine raises a
\* RangeError.
MaxStack == 10

\* The raw JSON tree as the runtime value parse returns with revive: false.
RECURSIVE JsonAsValue(_)
JsonAsValue(j) ==
    IF j.t = "arr" THEN TArray([i \in 1..Len(j.v) |-> JsonAsValue(j.v[i])])
    ELSE IF j.t = "obj"
    THEN TObject([i \in 1..Len(j.v) |-> <<j.v[i][1], JsonAsValue(j.v[i][2])>>])
    ELSE j

\* The return of stringify: the text of the JSON tree json.
stringifyText(json, st, sorted, unit) ==
    [ok |-> TRUE, text |-> stringifyJson(json, unit, sorted), err |-> "",
     json |-> json, st |-> st]

\* stringify after convertValue returned or threw: a top-level SKIP is null.
stringifyResult(result, sorted, unit) ==
    IF result.k = "err"
    THEN [ok |-> FALSE, text |-> <<>>, err |-> result.err, json |-> JNull,
          st |-> result.st]
    ELSE stringifyText(IF result.k = "skip" THEN JNull ELSE result.val, result.st,
                       sorted, unit)

\* stringify(value, {strict, sorted, space}): [ok, text, err, json, st], where
\* json is the tree handed to stringifyJson and st the call's final state.
stringify(handlerList, heap, value, strict, sorted, unit) ==
    stringifyResult(convertValue([list |-> handlerList, heap |-> heap,
                                  strict |-> strict],
                                 value, "top",
                                 [top |-> {}, ctx |-> {}, calls |-> <<>>], MaxStack),
                    sorted, unit)

NoPos == [message |-> "", line |-> 0, column |-> 0, position |-> 0]

\* input.split('\n'): the lines of the input, at least one.
RECURSIVE SplitLines(_, _, _)
SplitLines(input, i, line) ==
    IF i > Len(input) THEN <<line>>
    ELSE IF input[i] = "\n" THEN <<line>> \o SplitLines(input, i + 1, <<>>)
    ELSE SplitLines(input, i + 1, Append(line, input[i]))

\* ' '.repeat(column - 1) + '^'; repeat raises a RangeError for a negative
\* count.
Pointer(column) ==
    IF column < 1 THEN <<"RangeError">>
    ELSE [i \in 1..(column - 1) |-> " "] \o <<"^">>

\* TsonParseError.createSnippet(input, line, column):
\* ` at line ${line}, column ${column}:\n ${currentLine} ${pointer}`
createSnippet(input, line, column) ==
    IF line - 1 < 0 \/ line - 1 >= Len(SplitLines(input, 1, <<>>)) THEN <<>>
    ELSE <<" ", "a", "t", " ", "l", "i", "n", "e", " ">> \o NatToChars(line)
         \o <<",", " ", "c", "o", "l", "u", "m", "n", " ">> \o NumToChars(column)
         \o <<":", "\n", " ">> \o SplitLines(input, 1, <<>>)[line]
         \o <<" ">> \o Pointer(column)

\* The return of parse with revive: true, r being what reviveValue returned.
parseRevived(r) ==
    [ok |-> r.ok, val |-> r.val, err |-> r.err, at |-> NoPos, calls |-> r.calls]

\* parse reviving whatever the options say.
parseResultAlwaysRevive(handlers, json, revive) ==
    IF ~json.ok
    THEN [ok |-> FALSE, val |-> VNull, err |-> "TsonParseError", at |-> json.err,
          calls |-> <<>>]
    ELSE parseRevived(reviveValue(handlers, json.val, <<>>))

\* parse after parseJson returned json or threw.
parseResult(handlers, json, revive) ==
    IF ~json.ok
    THEN [ok |-> FALSE, val |-> VNull, err |-> "TsonParseError", at |-> json.err,
          calls |-> <<>>]
    ELSE IF ~revive
    THEN [ok |-> TRUE, val |-> JsonAsValue(json.val), err |-> "", at |-> NoPos,
          calls |-> <<>>]
    ELSE parseRevived(reviveValue(handlers, json.val, <<>>))

\* What a parse that revived the root value as soon as parseValue returned
\* it leaves when the end of the input is then refused: the TsonParseError,
\* after the deserialize calls of the revival r.
parseRaisedLate(json, r) ==
    [ok |-> FALSE, val |-> VNull, err |-> "TsonParseError", at |-> json.err,
     calls |-> r.calls]

\* parse reviving the root value before it asks for the end of the input.
parseRevivingEarly(handlers, text, revive) ==
    IF /\ revive
       /\ ParserInit(text).ok
       /\ ~parseJson(text).ok
       /\ parseValue(text, ParserInit(text).ps).ok
    THEN parseRaisedLate(parseJson(text),
                         reviveValue(handlers,
                                     parseValue(text, ParserInit(text).ps).val, <<>>))
    ELSE parseResult(handlers, parseJson(text), revive)

\* parse(text, {revive}): [ok, val, err, at, calls]; err is "TsonParseError"
\* (with the error's fields in at) or the message of a revival error.
parse(handlers, text, revive) == parseResult(handlers, parseJson(text), revive)

(***************************************************************************)
(* State                                                                   *)
(***************************************************************************)

VARIABLES
    handlers,      \* the instance's Map from name to handler
    handlerList,   \* the instance's handlers in precedence order
    heap,          \* the caller's objects, by identity
    root,          \* the value of the latest stringify call
    out,           \* the latest stringify call and what it returned or threw
    back,          \* the latest parse call and what it returned or threw
    ret,           \* the latest API call: [op, name, id, ok]
    peer,          \* another instance of the module, if one was created
    token          \* what a tokenizer's nextToken last returned or threw

vars == <<handlers, handlerList, heap, root, out, back, ret, peer, token>>

NoOut ==
    [called |-> FALSE, strict |-> FALSE, sorted |-> FALSE, ok |-> FALSE,
     text |-> <<>>, err |-> "", json |-> JNull,
     st |-> [top |-> {}, ctx |-> {}, calls |-> <<>>]]

NoBack ==
    [called |-> FALSE, text |-> <<>>, revive |-> FALSE, ok |-> FALSE, val |-> VNull,
     err |-> "", at |-> NoPos, calls |-> <<>>, snippet |-> <<>>]

Ret(op, name, id, ok) == [op |-> op, name |-> name, id |-> id, ok |-> ok]

\* No tokenizer was asked for a token.
NoToken ==
    [called |-> FALSE, input |-> <<>>, ok |-> FALSE, type |-> "", value |-> JNull,
     start |-> 0, end |-> 0, err |-> NoPos]

\* No other instance was created.
NoPeer ==
    [created |-> FALSE, handlers |-> <<>>, handlerList |-> <<>>, ownMap |-> TRUE,
     ownList |-> TRUE]

\* handlers(): the names in precedence order.
Handlers == [i \in 1..Len(handlerList) |-> handlerList[i].name]

\* create({builtins}): the Map and the list filled from builtinHandlers.
create(builtins) ==
    IF builtins
    THEN [handlers |-> [n \in {builtinHandlers[i].name : i \in 1..Len(builtinHandlers)}
                          |-> builtinHandlers[CHOOSE i \in 1..Len(builtinHandlers) :
                                                 builtinHandlers[i].name = n]],
          handlerList |-> builtinHandlers]
    ELSE [handlers |-> <<>>, handlerList |-> <<>>]

\* An instance whose handler list is one array shared by every instance.
createInstanceSharedList(builtins) ==
    [created |-> TRUE, handlers |-> create(builtins).handlers,
     handlerList |-> create(builtins).handlerList, ownMap |-> TRUE, ownList |-> FALSE]

\* create(options) as an instance: the registry create fills, held in a Map
\* and an array that the call makes anew (ownMap, ownList), so that no other
\* instance holds them.
createInstance(builtins) ==
    [created |-> TRUE, handlers |-> create(builtins).handlers,
     handlerList |-> create(builtins).handlerList, ownMap |-> TRUE, ownList |-> TRUE]

(***************************************************************************)
(* Operations                                                              *)
(***************************************************************************)

\* What a nextToken call leaves: r is what it returned or threw.
TokenReturn(input, r) ==
    token' = IF r.ok
             THEN [called |-> TRUE, input |-> input, ok |-> TRUE, type |-> r.tok.type,
                   value |-> r.tok.value, start |-> r.tok.position,
                   end |-> r.st.position, err |-> NoPos]
             ELSE [called |-> TRUE, input |-> input, ok |-> FALSE, type |-> "",
                   value |-> JNull, start |-> 0, end |-> 0, err |-> r.err]

\* new Tokenizer(input).nextToken(): the first token of the input at hand.
NextToken ==
    /\ ~token.called
    /\ TokenReturn(token.input, nextToken(token.input, TokenizerInit))
    /\ UNCHANGED <<handlers, handlerList, heap, root, out, back, ret, peer>>

\* The other instance after this instance's Map and list changed: it sees
\* the change only in a Map or a list it shares with this instance.
PeerSees ==
    peer' = [peer EXCEPT
                !.handlers = IF peer.created /\ ~peer.ownMap THEN handlers' ELSE @,
                !.handlerList = IF peer.created /\ ~peer.ownList THEN handlerList'
                                ELSE @]


\* What a stringify call leaves: r is what it returned or threw.
StringifyReturn(value, strict, sorted, r) ==
    /\ root' = value
    /\ out' = [called |-> TRUE, strict |-> strict, sorted |-> sorted, ok |-> r.ok,
               text |-> r.text, err |-> r.err, json |-> r.json, st |-> r.st]
    /\ ret' = Ret("stringify", <<>>, 0, r.ok)

\* tson.stringify(value, {strict, sorted, space})
Stringify(value, strict, sorted, unit) ==
    /\ StringifyReturn(value, strict, sorted,
                       stringify(handlerList, heap, value, strict, sorted, unit))
    /\ back' = NoBack
    /\ UNCHANGED <<handlers, handlerList, heap, peer, token>>

\* What a parse call leaves: r is what it returned or threw.
ParseReturn(text, revive, r) ==
    /\ back' = [called |-> TRUE, text |-> text, revive |-> revive, ok |-> r.ok,
                val |-> r.val, err |-> r.err, at |-> r.at, calls |-> r.calls,
                snippet |-> IF r.err = "TsonParseError"
                            THEN createSnippet(text, r.at.line, r.at.column)
                            ELSE <<>>]
    /\ ret' = Ret("parse", <<>>, 0, r.ok)

\* tson.parse(text, {revive})
Parse(text, revive) ==
    /\ ParseReturn(text, revive, parse(handlers, text, revive))
    /\ UNCHANGED <<handlers, handlerList, heap, root, out, peer, token>>

\* register without the handlers.has check: a second handler of a name
\* replaces the first in the Map and joins the list.
registerOverwriting(h) ==
    /\ handlers' = [n \in DOMAIN handlers \cup {h.name} |->
                       IF n = h.name THEN h ELSE handlers[n]]
    /\ handlerList' = Append(handlerList, h)
    /\ ret' = Ret("register", h.name, h.id, TRUE)

\* tson.register(handler)
register(h) ==
    IF h.name \in DOMAIN handlers
    THEN /\ ret' = Ret("register", h.name, h.id, FALSE)
         /\ UNCHANGED <<handlers, handlerList>>
    ELSE /\ handlers' = [n \in DOMAIN handlers \cup {h.name} |->
                            IF n = h.name THEN h ELSE handlers[n]]
         /\ handlerList' = Append(handlerList, h)
         /\ ret' = Ret("register", h.name, h.id, TRUE)

\* handlerList.indexOf(handler): 0 for -1.
IndexOf(list, h) ==
    LET hits == {i \in 1..Len(list) : list[i] = h}
    IN  IF hits = {} THEN 0 ELSE CHOOSE i \in hits : \A j \in hits : i <= j

\* splice replaced by a swap with the last element: the order of the rest
\* is disturbed.
SpliceSwap(list, idx) ==
    IF idx = Len(list) THEN SubSeq(list, 1, Len(list) - 1)
    ELSE [i \in 1..(Len(list) - 1) |-> IF i = idx THEN list[Len(list)] ELSE list[i]]

\* handlerList.splice(idx, 1)
Splice(list, idx) == SubSeq(list, 1, idx - 1) \o SubSeq(list, idx + 1, Len(list))

\* unregister without its two guards: for an unknown name indexOf gives -1
\* and splice(-1, 1) removes the last handler.
unregisterUnguarded(name) ==
    IF name \notin DOMAIN handlers
    THEN /\ handlers' = handlers
         /\ handlerList' = SubSeq(handlerList, 1, Len(handlerList) - 1)
         /\ ret' = Ret("unregister", name, 0, TRUE)
    ELSE /\ handlers' = IF DOMAIN handlers = {name} THEN <<>>
                        ELSE [n \in DOMAIN handlers \ {name} |-> handlers[n]]
         /\ handlerList' = Splice(handlerList, IndexOf(handlerList, handlers[name]))
         /\ ret' = Ret("unregister", name, handlers[name].id, TRUE)

\* unregister that deletes from the Map and leaves the list as it is.
unregisterMapOnly(name) ==
    IF name \notin DOMAIN handlers
    THEN /\ ret' = Ret("unregister", name, 0, FALSE)
         /\ UNCHANGED <<handlers, handlerList>>
    ELSE /\ handlers' = IF DOMAIN handlers = {name} THEN <<>>
                        ELSE [n \in DOMAIN handlers \ {name} |-> handlers[n]]
         /\ handlerList' = handlerList
         /\ ret' = Ret("unregister", name, handlers[name].id, TRUE)

\* tson.unregister(name)
unregister(name) ==
    IF name \notin DOMAIN handlers
    THEN /\ ret' = Ret("unregister", name, 0, FALSE)
         /\ UNCHANGED <<handlers, handlerList>>
    ELSE LET handler == handlers[name]
             idx == IndexOf(handlerList, handler)
         IN  /\ handlers' = IF DOMAIN handlers = {name} THEN <<>>
                             ELSE [n \in DOMAIN handlers \ {name} |-> handlers[n]]
             /\ handlerList' = IF idx >= 1 THEN Splice(handlerList, idx) ELSE handlerList
             /\ ret' = Ret("unregister", name, handler.id, TRUE)

\* A register or unregister call: the results of earlier stringify and parse
\* calls are no longer those of the current registry.
Register(h) ==
    /\ register(h)
    /\ PeerSees
    /\ out' = NoOut
    /\ back' = NoBack
    /\ UNCHANGED <<heap, root, token>>

Unregister(name) ==
    /\ unregister(name)
    /\ PeerSees
    /\ out' = NoOut
    /\ back' = NoBack
    /\ UNCHANGED <<heap, root, token>>

(***************************************************************************)
(* The values callers pass                                                 *)
(***************************************************************************)

\* The number of objects with identity in a value graph.
NRefs == 2

\* The most elements, properties or Set members of one object.
MaxLen == 2

Refs == 1..NRefs

\* The keys of a plain object's properties, in creation order.
KeyList == << <<"b">>, <<"a">>, <<"c">>, <<"e">> >>

EmptyCell == Cell("array", <<>>, <<>>)

SlotSeqs(leaves) ==
    UNION {[1..n -> leaves \cup {VRef(r) : r \in Refs}] : n \in 0..MaxLen}

\* A Set holds no value twice; a Map's slots pair up and its keys differ; a
\* toJSON method returns one value.
ValidCell(c) ==
    /\ c.kind = "set" =>
          \A i, j \in 1..Len(c.slots) : i # j => c.slots[i] # c.slots[j]
    /\ c.kind = "map" =>
          /\ Len(c.slots) % 2 = 0
          /\ \A i, j \in 1..(Len(c.slots) \div 2) :
                i # j => c.slots[2 * i - 1] # c.slots[2 * j - 1]
    /\ c.kind = "tojson" => Len(c.slots) = 1

Cells(leaves, kinds, keys) ==
    {c \in {Cell(k, IF k = "object" THEN SubSeq(keys, 1, Len(s)) ELSE <<>>, s) :
               k \in kinds, s \in SlotSeqs(leaves)} : ValidCell(c)}

\* The identities a value graph reaches from value v.
RefsOf(slots) == {slots[i].v : i \in {j \in 1..Len(slots) : slots[j].t = "ref"}}

RECURSIVE ReachFrom(_, _, _)
ReachFrom(h, set, n) ==
    IF n = 0 THEN set
    ELSE ReachFrom(h, set \cup UNION {RefsOf(h[r].slots) : r \in set}, n - 1)

Reach(h, v) == IF v.t = "ref" THEN ReachFrom(h, {v.v}, NRefs) ELSE {}

\* The value graphs rooted at object 1; an object the root does not reach is
\* left empty.
Heaps(leaves, kinds, keys) ==
    {h \in [Refs -> Cells(leaves, kinds, keys)] :
        \A r \in Refs \ Reach(h, VRef(1)) : h[r] = EmptyCell}

EmptyHeap == [r \in Refs |-> EmptyCell]

\* The object r reaches itself through properties, elements or members.
OnCycle(h, r) == r \in ReachFrom(h, RefsOf(h[r].slots), NRefs)

HasCycle(h, v) == \E r \in Reach(h, v) : OnCycle(h, r)

(***************************************************************************)
(* Conversion of value graphs: stringify calls on an instance created with *)
(* or without the built-in handlers.                                       *)
(***************************************************************************)

ConvLeaves == {VUndefined, VNonFinite("NaN"), VBigInt(5), VNum(1)}

ConvRoots ==
    {VNull, VBool(TRUE), VNum(1), VStr(<<"a">>), VUndefined, VFunction, VSymbol,
     VBigInt(5), VNonFinite("NaN"), VNonFinite("Infinity"), VNonFinite("-Infinity"),
     VDate(3)}

InitConv ==
    /\ \E builtins \in BOOLEAN :
          /\ handlers = create(builtins).handlers
          /\ handlerList = create(builtins).handlerList
    /\ \/ root \in ConvRoots /\ heap = EmptyHeap
       \/ root = VRef(1) /\ heap \in Heaps(ConvLeaves, {"array", "object", "set"}, KeyList)
    /\ out = NoOut
    /\ back = NoBack
    /\ ret = Ret("none", <<>>, 0, TRUE)
    /\ peer = NoPeer
    /\ token = NoToken

NextConv == \E strict \in BOOLEAN : Stringify(root, strict, FALSE, <<>>)

SpecConv == InitConv /\ [][NextConv]_vars


(***************************************************************************)
(* The registry: register, unregister, stringify and parse calls on one    *)
(* instance, with user-defined handlers whose tests overlap.               *)
(***************************************************************************)

\* Two handlers that accept strings and arrays, a second handler named "A"
\* and a second handler named "Set".
UserA == Handler(7, <<"A">>, {"str", "array", "object", "tojson"}, "user")
UserB == Handler(8, <<"B">>, {"str", "array", "set", "date"}, "user")
OtherA == Handler(9, <<"A">>, {"num"}, "user")
OtherSet == Handler(10, <<"S", "e", "t">>, {"set"}, "user")

UserHandlers == {UserA, UserB, OtherA, OtherSet}

\* The names unregister is called with; no handler is ever named "Z".
ProbeNames == {<<"A">>, <<"B">>, <<"S", "e", "t">>, <<"Z">>}

\* An array, a plain object, an object with a toJSON method and a Set.
ProbeHeap ==
    << Cell("array", <<>>, <<VStr(<<"a">>)>>),
       Cell("object", << <<"a">> >>, <<VNum(1)>>),
       Cell("tojson", <<>>, <<VNum(1)>>),
       Cell("set", <<>>, <<VNum(1)>>) >>

Probes == {VStr(<<"a">>), VDate(3), VRef(1), VRef(2), VRef(3), VRef(4)}

\* A tagged value of each probed name, and one untagged text.
ProbeTexts ==
    {stringifyJson(Tagged(n, JArr(<<JNum(1)>>)), <<>>, FALSE) :
        n \in {<<"A">>, <<"B">>, <<"S", "e", "t">>}}
    \cup {<<"1">>}

Init ==
    /\ \E builtins \in BOOLEAN :
          /\ handlers = create(builtins).handlers
          /\ handlerList = create(builtins).handlerList
    /\ heap = ProbeHeap
    /\ root = VNull
    /\ out = NoOut
    /\ back = NoBack
    /\ ret = Ret("none", <<>>, 0, TRUE)
    /\ peer = NoPeer
    /\ token = NoToken

Next ==
    \/ \E h \in UserHandlers : Register(h)
    \/ \E name \in ProbeNames : Unregister(name)
    \/ \E v \in Probes : Stringify(v, FALSE, FALSE, <<>>)
    \/ \E text \in ProbeTexts, revive \in BOOLEAN : Parse(text, revive)

Spec == Init /\ [][Next]_vars

\* The places in handlerList of the handlers whose test accepts v.
Accepting(v) == {i \in 1..Len(handlerList) : Test(handlerList[i], v, heap)}

FirstAccepting(v) == handlerList[CHOOSE i \in Accepting(v) : \A j \in Accepting(v) : i <= j]

\* C7: when several registered handlers accept a value, the one registered
\* first serializes it and no other handler's serialize is invoked on it; a
\* matching handler is used instead of the built-in treatment of strings,
\* arrays, objects with toJSON and plain objects, so the value is
\* emitted as that handler's tagged value.
C7_HandlerPrecedence ==
    (out.called /\ Accepting(root) # {}) =>
        /\ out.ok
        /\ isTaggedValue(out.json)
        /\ ObjGet(out.json.v, TypeKey) = JStr(FirstAccepting(root).name)
        /\ out.st.calls # <<>>
        /\ out.st.calls[1] = <<FirstAccepting(root).id, root>>
        /\ \A i \in 2..Len(out.st.calls) : out.st.calls[i][2] # root

\* "a" stringified while B, registered first, and A both accept it.
C7_Witness ==
    /\ out.called /\ out.ok
    /\ root = VStr(<<"a">>)
    /\ \E i, j \in Accepting(root) :
          i < j /\ handlerList[i] = UserB /\ handlerList[j] = UserA
    /\ out.json = Tagged(<<"B">>, JStr(<<"a">>))

\* C8: register with a name that is already registered raises, and leaves
\* the Map, the list and so handlers() as they were.
C8_DuplicateRegisterRaises ==
    [][(ret'.op = "register" /\ ret'.name \in DOMAIN handlers) =>
          /\ ~ret'.ok
          /\ handlers' = handlers
          /\ handlerList' = handlerList]_vars

\* register of a second handler named "A" has raised; the first is in place.
C8_Witness ==
    /\ ret.op = "register" /\ ~ret.ok /\ ret.id = OtherA.id
    /\ <<"A">> \in DOMAIN handlers
    /\ handlers[<<"A">>] = UserA
    /\ \E i \in 1..Len(handlerList) : handlerList[i] = UserA
    /\ \A i \in 1..Len(handlerList) : handlerList[i] # OtherA

\* C9: unregister with a name that is not registered returns false and
\* leaves the Map and the list as they were.
C9_UnregisterUnknown ==
    [][(ret'.op = "unregister" /\ ret'.name \notin DOMAIN handlers) =>
          /\ ~ret'.ok
          /\ handlers' = handlers
          /\ handlerList' = handlerList]_vars

\* unregister("Z") has returned false on an instance that has handlers.
C9_Witness ==
    /\ ret.op = "unregister" /\ ~ret.ok /\ ret.name = <<"Z">>
    /\ Len(handlerList) >= 2

\* Every handler a stringify or parse call dispatched to is registered.
DispatchedAreRegistered ==
    /\ \A i \in 1..Len(out.st.calls) :
          \E n \in DOMAIN handlers : handlers[n].id = out.st.calls[i][1]
    /\ \A i \in 1..Len(back.calls) :
          \E n \in DOMAIN handlers : handlers[n].id = back.calls[i][1]

\* The name of the tagged value a text holds at its top, <<>> when it holds
\* none.
TagNameOf(text) ==
    IF parseJson(text).ok /\ isTaggedValue(parseJson(text).val)
    THEN ObjGet(parseJson(text).val.v, TypeKey).v
    ELSE <<>>

\* C10: unregister with a registered name returns true and removes the
\* handler from the Map and the list; from then on, until a handler of that
\* name is registered, stringify dispatches no value to it and parse of a
\* tagged value of that name raises the unknown-type error.
C10_UnregisterKnown ==
    /\ [][(ret'.op = "unregister" /\ ret'.name \in DOMAIN handlers) =>
             /\ ret'.ok
             /\ ret'.name \notin DOMAIN handlers'
             /\ \A i \in 1..Len(handlerList') : handlerList'[i].name # ret'.name
             /\ Len(handlerList') = Len(handlerList) - 1]_vars
    /\ [](/\ DispatchedAreRegistered
          /\ \A i \in 1..Len(handlerList) : handlerList[i].name \in DOMAIN handlers
          /\ (/\ back.called /\ back.revive
              /\ TagNameOf(back.text) # <<>>
              /\ TagNameOf(back.text) \notin DOMAIN handlers)
                => (~back.ok /\ back.err = UnknownTypeError))

\* unregister("A") has returned true: A is gone and B, registered with it,
\* is still in place.
C10_Witness ==
    /\ ret.op = "unregister" /\ ret.ok /\ ret.name = <<"A">> /\ ret.id = UserA.id
    /\ <<"A">> \notin DOMAIN handlers
    /\ \A i \in 1..Len(handlerList) : handlerList[i] # UserA
    /\ \E i \in 1..Len(handlerList) : handlerList[i] = UserB

\* The list without its handlers named name, the others in their order.
Without(list, name) == SelectSeq(list, LAMBDA h : h.name # name)

\* The reference registry's step for the call ret' reports: a successful
\* register appends, an unregister of a listed name removes that name and
\* keeps the order of the rest, every other call leaves the list alone.
ReferenceStep ==
    handlerList' =
        CASE ret'.op = "register" /\ ret'.ok ->
                Append(handlerList,
                       CHOOSE h \in UserHandlers : h.id = ret'.id)
          [] ret'.op = "unregister" -> Without(handlerList, ret'.name)
          [] OTHER -> handlerList

\* The Map and the list hold the same handlers: no name twice in the list,
\* and a name is in the Map exactly when it is in the list, bound to the
\* same handler.
MapMatchesList ==
    /\ \A i, j \in 1..Len(handlerList) :
          handlerList[i].name = handlerList[j].name => i = j
    /\ DOMAIN handlers = {handlerList[i].name : i \in 1..Len(handlerList)}
    /\ \A i \in 1..Len(handlerList) :
          getHandler(handlers, handlerList[i].name) = <<handlerList[i]>>

\* C11: after any sequence of register and unregister calls the registry
\* equals the reference model: it starts as the built-in handlers (or
\* empty), a successful register appends, an unregister removes the name and
\* keeps the order of the rest; handlers() never holds a name twice, and a
\* name is resolvable for revival exactly when it is in handlers(), bound to
\* the handler of that name in the precedence list.
C11_RegistryReference ==
    /\ handlerList \in {builtinHandlers, <<>>}
    /\ [][ReferenceStep]_vars
    /\ []MapMatchesList

\* unregister("Set") after A and B were registered on an instance with the
\* built-in handlers: Set is gone from the middle, the order is kept.
C11_Witness ==
    /\ ret.op = "unregister" /\ ret.ok /\ ret.name = setHandler.name
    /\ handlerList =
          <<dateHandler, bigintHandler, regexpHandler, urlHandler, mapHandler,
            UserA, UserB>>
    /\ MapMatchesList

(***************************************************************************)
(* Two instances: the calls of the registry on an instance, while another  *)
(* instance (the default instance, or one from create) exists.             *)
(***************************************************************************)

\* create(options), or the module's defaultInstance = create(): a second
\* instance comes to exist.
CreatePeer(builtins) ==
    /\ ~peer.created
    /\ peer' = createInstance(builtins)
    /\ ret' = Ret("create", <<>>, 0, TRUE)
    /\ out' = NoOut
    /\ back' = NoBack
    /\ UNCHANGED <<handlers, handlerList, heap, root, token>>

\* The caller turns to the other instance: the next calls are its methods.
Switch ==
    /\ peer.created
    /\ handlers' = peer.handlers
    /\ handlerList' = peer.handlerList
    /\ peer' = [peer EXCEPT !.handlers = handlers, !.handlerList = handlerList]
    /\ ret' = Ret("none", <<>>, 0, TRUE)
    /\ out' = NoOut
    /\ back' = NoBack
    /\ UNCHANGED <<heap, root, token>>

NextInstances ==
    \/ \E builtins \in BOOLEAN : CreatePeer(builtins)
    \/ Switch
    \/ \E h \in {UserA, UserB} : Register(h)
    \/ \E name \in {<<"A">>, <<"S", "e", "t">>} : Unregister(name)
    \/ Stringify(VStr(<<"a">>), FALSE, FALSE, <<>>)
    \/ \E text \in ProbeTexts : Parse(text, TRUE)

SpecInstances == Init /\ [][NextInstances]_vars

\* C12: register and unregister on one instance never change handlers() of
\* another instance, nor the Map and the list its conversion and revival
\* dispatch through; this holds for instances from create() and for the
\* default instance alike.
C12_RegistriesPerInstance ==
    [][ret'.op \in {"register", "unregister"} =>
          /\ peer'.handlers = peer.handlers
          /\ peer'.handlerList = peer.handlerList]_vars

\* A is registered on this instance and not on the other, which exists and
\* has its built-in handlers.
C12_Witness ==
    /\ peer.created
    /\ ret.op = "register" /\ ret.ok /\ ret.id = UserA.id
    /\ <<"A">> \in DOMAIN handlers
    /\ peer.handlerList = builtinHandlers
    /\ <<"A">> \notin DOMAIN peer.handlers

(***************************************************************************)
(* Revival: parse of texts that hold tagged values and objects that look   *)
(* like them, alone and nested in arrays and plain objects.                *)
(***************************************************************************)

\* The deepest nesting of arrays and plain objects around an object.
MaxNest == 2

TagNames == {<<"A">>, <<"S", "e", "t">>, <<"Z">>}

TagPayload == JArr(<<JNum(1)>>)

ExtraKey == <<"x">>

\* The objects with a key $type or a key $value: the exact two-key shape,
\* the two keys and a third, $type alone, $type and another key, $value
\* alone, and a $type that is no string.
TagShapes ==
    {Tagged(n, TagPayload) : n \in TagNames}
    \cup {JObj(<< <<TypeKey, JStr(n)>>, <<ValueKey, TagPayload>>, <<ExtraKey, JNum(1)>> >>) :
             n \in {<<"A">>, <<"Z">>}}
    \cup {JObj(<< <<ExtraKey, JNum(1)>>, <<TypeKey, JStr(<<"A">>)>>, <<ValueKey, TagPayload>> >>),
          JObj(<< <<TypeKey, JStr(<<"A">>)>> >>),
          JObj(<< <<TypeKey, JStr(<<"A">>)>>, <<ExtraKey, JNum(1)>> >>),
          JObj(<< <<ExtraKey, JNum(1)>>, <<TypeKey, JStr(<<"Z">>)>> >>),
          JObj(<< <<ValueKey, TagPayload>> >>),
          JObj(<< <<TypeKey, JNum(1)>>, <<ValueKey, TagPayload>> >>)}

\* j inside up to d arrays and plain objects.
RECURSIVE Nest(_, _)
Nest(js, d) ==
    IF d = 0 THEN js
    ELSE Nest(js, d - 1)
         \cup {JArr(<<JNum(2), j>>) : j \in Nest(js, d - 1)}
         \cup {JObj(<< <<ExtraKey, j>> >>) : j \in Nest(js, d - 1)}

ReviveTrees == Nest(TagShapes, MaxNest)

ReviveTexts == {stringifyJson(j, <<>>, FALSE) : j \in ReviveTrees}

NextRevive ==
    \/ Register(UserA)
    \/ Unregister(<<"A">>)
    \/ \E text \in ReviveTexts, revive \in BOOLEAN : Parse(text, revive)

SpecRevive == Init /\ [][NextRevive]_vars

\* The JSON tree of the text the last parse was called with.
BackTree == parseJson(back.text).val

KeySet(o) == {o.v[i][1] : i \in 1..Len(o.v)}

\* An object with a string under $type and something under $value.
LooksTagged(o) ==
    /\ {TypeKey, ValueKey} \subseteq KeySet(o)
    /\ \E i \in 1..Len(o.v) : o.v[i][1] = TypeKey /\ o.v[i][2].t = "str"

\* The objects of a JSON tree j that revival reaches through arrays and
\* plain objects (an object that looks tagged is reached, not entered).
RECURSIVE PlainReach(_)
PlainReach(j) ==
    IF j.t = "arr" THEN UNION {PlainReach(j.v[i]) : i \in 1..Len(j.v)}
    ELSE IF j.t # "obj" THEN {}
    ELSE IF LooksTagged(j) THEN {j}
    ELSE {j} \cup UNION {PlainReach(j.v[i][2]) : i \in 1..Len(j.v)}

\* C13: parse(text, {revive: false}) returns the raw JSON tree of the text,
\* every {$type, $value} object intact; no deserialize is invoked and no
\* revival error is raised, whatever tags the text holds.
C13_NoRevival ==
    (back.called /\ ~back.revive) =>
        /\ back.ok
        /\ back.calls = <<>>
        /\ back.err \notin {UnknownTypeError, TagShapeError}
        /\ \A j \in ReviveTrees :
              back.text = stringifyJson(j, <<>>, FALSE) => back.val = JsonAsValue(j)

\* A nested tagged value of a name that is not registered came back as it
\* was written.
C13_Witness ==
    /\ back.called /\ ~back.revive /\ back.ok
    /\ back.val = JsonAsValue(JArr(<<JNum(2),
                                     JObj(<< <<ExtraKey, Tagged(<<"Z">>, TagPayload)>> >>)>>))
    /\ <<"Z">> \notin DOMAIN handlers

\* The two-key tagged values among the objects revival reaches in j whose
\* $type names no handler of the instance.
UnknownTags(j) ==
    {o \in PlainReach(j) :
        /\ LooksTagged(o)
        /\ KeySet(o) = {TypeKey, ValueKey}
        /\ ObjGet(o.v, TypeKey).v \notin DOMAIN handlers}

\* C14: with revival enabled, a tagged value whose $type names no handler
\* registered on the instance makes parse fail with the unknown-type error,
\* at any nesting depth of plain objects and arrays, and parse returns
\* nothing.
C14_UnknownTypeRaises ==
    (back.called /\ back.revive /\ UnknownTags(BackTree) # {}) =>
        /\ ~back.ok
        /\ back.err = UnknownTypeError
        /\ back.val = VNull

\* The tagged value named A, two levels down, on an instance that has the
\* built-in handlers and none named A.
C14_Witness ==
    /\ back.called /\ back.revive /\ ~back.ok
    /\ back.err = UnknownTypeError
    /\ BackTree = JObj(<< <<ExtraKey,
                            JArr(<<JNum(2), Tagged(<<"A">>, TagPayload)>>)>> >>)
    /\ handlerList = builtinHandlers

\* parse revived the text as plain data: the tree itself, key by key, and no
\* handler's deserialize was invoked.
RevivedAsPlain ==
    /\ back.ok
    /\ back.val = JsonAsValue(BackTree)
    /\ back.calls = <<>>

\* C15 as stated: an object is a tagged value only if its key set is exactly
\* {$type, $value}; a text whose objects all have extra keys or miss one of
\* the two keys is revived key by key as plain data and no handler is
\* invoked.
C15_ExactKeySetOnly ==
    (/\ back.called /\ back.revive
     /\ \A o \in PlainReach(BackTree) : KeySet(o) # {TypeKey, ValueKey}) =>
        RevivedAsPlain

\* C15 as the code has it: objects that miss $type or $value, or whose $type
\* is not a string, are revived key by key as plain data with no handler
\* invoked; an object that has a string $type, a $value and further keys is
\* no plain data (parse raises the tag-shape error), and no handler is
\* invoked for it either.
C15_PlainUnlessBothKeys ==
    /\ (/\ back.called /\ back.revive
        /\ \A o \in PlainReach(BackTree) : ~LooksTagged(o)) => RevivedAsPlain
    /\ (/\ back.called /\ back.revive
        /\ \A o \in PlainReach(BackTree) : KeySet(o) # {TypeKey, ValueKey}) =>
           /\ back.calls = <<>>
           /\ back.ok => RevivedAsPlain
           /\ ~back.ok => back.err = TagShapeError

\* {$type: "A", x: 1} in an array came back as the plain object it is, on an
\* instance where A is registered.
C15_Witness ==
    /\ back.called /\ back.revive
    /\ <<"A">> \in DOMAIN handlers
    /\ BackTree = JArr(<<JNum(2),
                         JObj(<< <<TypeKey, JStr(<<"A">>)>>, <<ExtraKey, JNum(1)>> >>)>>)
    /\ RevivedAsPlain

\* C16 as stated: every object with a $type key whose key set is not exactly
\* {$type, $value} makes parse fail with the malformed-tag error.
C16_TypeKeyWrongSetRaises ==
    (/\ back.called /\ back.revive
     /\ \E o \in PlainReach(BackTree) :
           TypeKey \in KeySet(o) /\ KeySet(o) # {TypeKey, ValueKey}) =>
        (~back.ok /\ back.err = TagShapeError)

\* C16 as the code has it: an object with a string $type, a $value and at
\* least one other key makes parse fail with the malformed-tag error, with
\* or without a handler of that name; an object with $type and no $value, or
\* with a $type that is no string, is no malformed tag (it is plain data).
C16_ExtraKeysRaise ==
    /\ (/\ back.called /\ back.revive
        /\ \E o \in PlainReach(BackTree) :
              LooksTagged(o) /\ KeySet(o) # {TypeKey, ValueKey}) =>
           (~back.ok /\ back.err = TagShapeError /\ back.val = VNull /\ back.calls = <<>>)
    /\ (/\ back.called /\ back.revive
        /\ \A o \in PlainReach(BackTree) : ~LooksTagged(o)) => back.err # TagShapeError

\* {x: 1, $type: "A", $value: [1]} inside an object raised the tag-shape
\* error on an instance where A is registered.
C16_Witness ==
    /\ back.called /\ back.revive /\ ~back.ok
    /\ back.err = TagShapeError
    /\ <<"A">> \in DOMAIN handlers
    /\ BackTree = JObj(<< <<ExtraKey,
                            JObj(<< <<ExtraKey, JNum(1)>>, <<TypeKey, JStr(<<"A">>)>>,
                                    <<ValueKey, TagPayload>> >>)>> >>)

(***************************************************************************)
(* Numbers: nextToken at a text that starts with a digit or a minus sign.  *)
(***************************************************************************)

\* The longest text handed to nextToken.
MaxNumLen == 5

NumberStart == {"-", "0", "1", "3", "8"}

NumberChars == NumberStart \cup {".", "e", "E", "+", "]"}

RECURSIVE TextsOver(_, _)
\* The texts of at most n characters of the set chars.
TextsOver(chars, n) ==
    IF n = 0 THEN {<<>>}
    ELSE TextsOver(chars, n - 1)
         \cup {Append(t, c) : t \in {u \in TextsOver(chars, n - 1) : Len(u) = n - 1},
                              c \in chars}

NumberTexts ==
    {<<c>> \o t : c \in NumberStart, t \in TextsOver(NumberChars, MaxNumLen - 1)}

\* A tokenizer constructed on one of the texts.
InitNumber ==
    /\ handlers = create(TRUE).handlers
    /\ handlerList = create(TRUE).handlerList
    /\ heap = EmptyHeap
    /\ root = VNull
    /\ out = NoOut
    /\ back = NoBack
    /\ ret = Ret("none", <<>>, 0, TRUE)
    /\ peer = NoPeer
    /\ \E input \in NumberTexts : token = [NoToken EXCEPT !.input = input]

NextNumber == NextToken

SpecNumber == InitNumber /\ [][NextNumber]_vars

\* The number grammar, part by part:
\* -?(0|[1-9][0-9]*)(.[0-9]+)?([eE][+-]?[0-9]+)?
AllDigits(u) == \A i \in 1..Len(u) : u[i] \in {Digits[k] : k \in 1..10}

GrammarInt(u) == u = <<"0">> \/ (u # <<>> /\ AllDigits(u) /\ u[1] # "0")

GrammarFrac(u) == u = <<>> \/ (Len(u) >= 2 /\ u[1] = "." /\ AllDigits(Tail(u)))

GrammarExp(u) ==
    \/ u = <<>>
    \/ /\ Len(u) >= 2
       /\ u[1] \in {"e", "E"}
       /\ \/ AllDigits(Tail(u))
          \/ Len(u) >= 3 /\ u[2] \in {"+", "-"} /\ AllDigits(Tail(Tail(u)))

\* s splits as sign (a characters), integer part (to b), fraction (to c)
\* and exponent (to the end).
SplitsAs(s, a, b, c) ==
    /\ a <= b /\ b <= c
    /\ a = 1 => s[1] = "-"
    /\ GrammarInt(SubSeq(s, a + 1, b))
    /\ GrammarFrac(SubSeq(s, b + 1, c))
    /\ GrammarExp(SubSeq(s, c + 1, Len(s)))

NumberGrammar(s) ==
    \E a \in 0..1, b \in 0..Len(s), c \in 0..Len(s) : a <= Len(s) /\ SplitsAs(s, a, b, c)

\* The length of the longest prefix of s the grammar matches (0: none).
LongestNumber(s) ==
    CHOOSE n \in 0..Len(s) :
        /\ n > 0 => NumberGrammar(SubSeq(s, 1, n))
        /\ \A k \in (n + 1)..Len(s) : ~NumberGrammar(SubSeq(s, 1, k))

\* The character of s after its first n, or "NUL" at the end.
CharAfter(s, n) == IF n < Len(s) THEN s[n + 1] ELSE "NUL"

IsDigitChar(c) == c \in {Digits[k] : k \in 1..10}

SignLen(s) == IF s # <<>> /\ s[1] = "-" THEN 1 ELSE 0

\* The end of the longest sign and integer part at the start of s.
RECURSIVE DigitsEnd(_, _)
DigitsEnd(s, n) == IF IsDigitChar(CharAfter(s, n)) THEN DigitsEnd(s, n + 1) ELSE n

IntEnd(s) ==
    IF CharAfter(s, SignLen(s)) = "0" THEN SignLen(s) + 1 ELSE DigitsEnd(s, SignLen(s))

\* The end of the fraction that follows the integer part, if there is one.
FracEnd(s) ==
    IF CharAfter(s, IntEnd(s)) = "." THEN DigitsEnd(s, IntEnd(s) + 1) ELSE IntEnd(s)

LeadingZero(s) == CharAfter(s, SignLen(s)) = "0" /\ IsDigitChar(CharAfter(s, SignLen(s) + 1))

MinusNoDigit(s) == SignLen(s) = 1 /\ ~IsDigitChar(CharAfter(s, 1))

PointNoDigit(s) == CharAfter(s, IntEnd(s)) = "." /\ ~IsDigitChar(CharAfter(s, IntEnd(s) + 1))

ExponentNoDigit(s) ==
    /\ CharAfter(s, FracEnd(s)) \in {"e", "E"}
    /\ ~IsDigitChar(CharAfter(s, FracEnd(s) + 1))
    /\ ~(/\ CharAfter(s, FracEnd(s) + 1) \in {"+", "-"}
         /\ IsDigitChar(CharAfter(s, FracEnd(s) + 2)))

\* The literal lit = sign, integer part (to b), fraction (to c), exponent is
\* no finite double.
SplitNotFinite(lit, a, b, c) ==
    ParseFloat(a = 1, SubSeq(lit, a + 1, b),
               IF c > b THEN SubSeq(lit, b + 2, c) ELSE <<>>,
               c < Len(lit) /\ CharAfter(lit, c + 1) = "-",
               IF c = Len(lit) THEN <<>>
               ELSE IF lit[c + 2] \in {"+", "-"} THEN SubSeq(lit, c + 3, Len(lit))
               ELSE SubSeq(lit, c + 2, Len(lit))).t = "inf"

NotFinite(lit) ==
    \E a \in 0..1, b \in 0..Len(lit), c \in 0..Len(lit) :
        a <= Len(lit) /\ SplitsAs(lit, a, b, c) /\ SplitNotFinite(lit, a, b, c)

NumberError(s) ==
    \/ LeadingZero(s)
    \/ MinusNoDigit(s)
    \/ PointNoDigit(s)
    \/ ExponentNoDigit(s)
    \/ (LongestNumber(s) > 0 /\ NotFinite(SubSeq(s, 1, LongestNumber(s))))

\* C20: at a text that starts with a digit or '-', nextToken returns a Number
\* token that consumes exactly the longest text matching
\* -?(0|[1-9][0-9]*)(.[0-9]+)?([eE][+-]?[0-9]+)?, and raises a TsonParseError
\* when a leading 0 is followed by a digit, when '-' is not followed by a
\* digit, when '.' is not followed by a digit, when the exponent marker is not
\* followed by an optionally signed digit, or when the value is not finite;
\* it raises in no other case.
C20_NumberGrammar ==
    token.called =>
        /\ token.ok <=> ~NumberError(token.input)
        /\ token.ok =>
              /\ token.type = "Number"
              /\ token.start = 0
              /\ token.end = LongestNumber(token.input)
              /\ NumberGrammar(SubSeq(token.input, 1, token.end))

\* -1e1 was consumed as one Number token and the "]" after it was left.
C20_Witness ==
    /\ token.called /\ token.ok
    /\ token.type = "Number"
    /\ token.input = <<"-", "1", "e", "1", "]">>
    /\ token.end = 4

\* 8e308 is beyond the largest double and was refused.
RangeRefused ==
    /\ token.called /\ ~token.ok
    /\ token.input = <<"8", "e", "3", "0", "8">>
    /\ token.err.message = "Invalid number: value out of range"

(***************************************************************************)
(* Texts: parse of every short text of a small alphabet, and of documents  *)
(* with one construct of a laxer JSON dialect put in.                      *)
(***************************************************************************)

\* The longest text of the exhaustive family.
MaxTextLen == 4

TextChars ==
    {"[", "]", "{", "}", ",", ":", "\"", "'", "a", "1", " ", "\n", "\r", "/", "*", "\\"}

ShortTexts == TextsOver(TextChars, MaxTextLen)

KeyA == <<"a">>

BaseTrees ==
    {JNum(1),
     JObj(<< <<KeyA, JArr(<<JNum(1), JObj(<< <<KeyA, JNum(1)>> >>)>>)>> >>),
     JArr(<<JObj(<< <<KeyA, JStr(KeyA)>> >>), JArr(<<>>)>>)}

\* The documents, compact and indented.
BaseTexts == {stringifyJson(j, unit, FALSE) : j \in BaseTrees, unit \in {<<>>, <<" ">>}}

InsertAt(t, p, f) == SubSeq(t, 1, p) \o f \o SubSeq(t, p + 1, Len(t))

\* The place after the first p characters of the document t is outside its
\* string literals (the documents hold no escaped quote).
Outside(t, p) == Cardinality({i \in 1..p : t[i] = "\""}) % 2 = 0

OutsidePlaces(t) == {p \in 0..Len(t) : Outside(t, p)}

\* A comma put before a closing bracket or brace.
TrailingCommaTexts ==
    UNION {{InsertAt(t, p, c) :
               p \in {q \in OutsidePlaces(t) : q < Len(t) /\ t[q + 1] \in {"]", "}"}},
               c \in {<<",">>, <<",", " ">>, <<",", "\n">>}} : t \in BaseTexts}

\* A block comment or a line comment put anywhere outside a string.
CommentTexts ==
    UNION {{InsertAt(t, p, c) :
               p \in OutsidePlaces(t),
               c \in {<<"/", "*", "a", "*", "/">>, <<"/", "/", "a", "\n">>}} :
           t \in BaseTexts}

\* A single-quoted string put anywhere outside a string, and the documents
\* with single quotes for double quotes.
SingleQuoteTexts ==
    UNION {{InsertAt(t, p, <<"'", "a", "'">>) : p \in OutsidePlaces(t)} : t \in BaseTexts}
    \cup {[i \in 1..Len(t) |-> IF t[i] = "\"" THEN "'" ELSE t[i]] :
             t \in {u \in BaseTexts : \E i \in 1..Len(u) : u[i] = "\""}}

\* The documents with one object key written without quotes, as a word or as
\* a keyword.
UnquotedKeyTexts ==
    UNION {{SubSeq(t, 1, p) \o k \o SubSeq(t, p + 4, Len(t)) :
               p \in {q \in 0..(Len(t) - 4) :
                         SubSeq(t, q + 1, q + 4) = <<"\"", "a", "\"", ":">>},
               k \in {KeyA, <<"n", "u", "l", "l">>}} :
           t \in BaseTexts}

LaxTexts == TrailingCommaTexts \cup CommentTexts \cup SingleQuoteTexts \cup UnquotedKeyTexts

FurtherTokens ==
    {<<"1">>, <<"\"", "a", "\"">>, <<"[">>, <<"]">>, <<"}">>, <<",">>, <<":">>,
     <<"n", "u", "l", "l">>, <<"[", "]">>}

\* A document and one more token, after whitespace or (unless the two would
\* read as one number) next to it.
TrailingTexts ==
    {t \o w \o k : t \in BaseTexts, w \in {<<" ">>, <<"\n">>}, k \in FurtherTokens}
    \cup {t \o k : t \in BaseTexts, k \in FurtherTokens \ {<<"1">>}}

\* A document between whitespace.
PaddedTexts ==
    {v \o t \o w : t \in BaseTexts, v \in {<<>>, <<" ", "\n">>}, w \in {<<>>, <<"\n", " ", "\r">>}}

\* The parser constructed on one of the texts.
InitText ==
    /\ handlers = create(TRUE).handlers
    /\ handlerList = create(TRUE).handlerList
    /\ heap = EmptyHeap
    /\ root = VNull
    /\ out = NoOut
    /\ ret = Ret("none", <<>>, 0, TRUE)
    /\ peer = NoPeer
    /\ token = NoToken
    /\ \/ \E text \in ShortTexts : back = [NoBack EXCEPT !.text = text]
       \/ \E text \in BaseTexts \cup PaddedTexts : back = [NoBack EXCEPT !.text = text]
       \/ \E text \in LaxTexts : back = [NoBack EXCEPT !.text = text]
       \/ \E text \in TrailingTexts : back = [NoBack EXCEPT !.text = text]

\* tson.parse(text) of the text at hand.
ParseText == ~back.called /\ Parse(back.text, TRUE)

NextText == ParseText

SpecText == InitText /\ [][NextText]_vars

\* parse raised a TsonParseError.
ParseErrorRaised == ~back.ok /\ back.err = "TsonParseError"

\* C17: parse raises a TsonParseError for every text that holds a trailing
\* comma before ] or }, a block or line comment, a single-quoted string or an
\* unquoted object key, wherever in the document it is.
C17_StrictGrammar == (back.called /\ back.text \in LaxTexts) => ParseErrorRaised

\* The comma after the inner object's last member, two levels down in the
\* indented document, was refused; the document itself parses.
C17_Witness ==
    /\ back.called /\ ParseErrorRaised
    /\ back.text \in TrailingCommaTexts
    /\ \E p \in 0..Len(back.text) :
          /\ p > 10
          /\ back.text[p] = ","
          /\ SubSeq(back.text, 1, p - 1) \o SubSeq(back.text, p + 1, Len(back.text))
                = stringifyJson(JObj(<< <<KeyA, JArr(<<JNum(1),
                                                       JObj(<< <<KeyA, JNum(1)>> >>)>>)>> >>),
                                <<" ">>, FALSE)
          /\ parseJson(SubSeq(back.text, 1, p - 1)
                          \o SubSeq(back.text, p + 1, Len(back.text))).ok

\* The JSON grammar, read off the text: each operator answers the place
\* after the construct that starts at place i, or -1 if there is none.
Whitespace == {" ", "\t", "\n", "\r"}

RECURSIVE WsEnd(_, _)
WsEnd(s, i) == IF i < Len(s) /\ s[i + 1] \in Whitespace THEN WsEnd(s, i + 1) ELSE i

HasPrefix(s, i, w) == i + Len(w) <= Len(s) /\ SubSeq(s, i + 1, i + Len(w)) = w

\* The string whose opening quote ends at place i.
RECURSIVE StringEnd(_, _)
StringEnd(s, i) ==
    IF i >= Len(s) \/ s[i + 1] \in {"\n", "\r"} THEN -1
    ELSE IF s[i + 1] = "\"" THEN i + 1
    ELSE IF s[i + 1] # "\\" THEN StringEnd(s, i + 1)
    ELSE IF CharAfter(s, i + 1) \in {"\"", "\\", "/", "b", "f", "n", "r", "t"}
    THEN StringEnd(s, i + 2)
    ELSE IF /\ CharAfter(s, i + 1) = "u"
            /\ i + 6 <= Len(s)
            /\ \A k \in 3..6 : isHexDigit(s[i + k])
    THEN StringEnd(s, i + 6)
    ELSE -1

NumberEnd(s, i) ==
    IF LongestNumber(SubSeq(s, i + 1, Len(s))) = 0 THEN -1
    ELSE i + LongestNumber(SubSeq(s, i + 1, Len(s)))

RECURSIVE ValueEnd(_, _)
RECURSIVE ElementsEnd(_, _)
RECURSIVE MembersEnd(_, _)

\* After a value or a member: the closer ends the list, a comma continues it.
ListNext(s, j, closer) ==
    IF j < 0 THEN "none"
    ELSE IF CharAfter(s, WsEnd(s, j)) = closer THEN "end"
    ELSE IF CharAfter(s, WsEnd(s, j)) = "," THEN "more"
    ELSE "none"

ElementsEnd(s, i) ==
    CASE ListNext(s, ValueEnd(s, i), "]") = "end" -> WsEnd(s, ValueEnd(s, i)) + 1
      [] ListNext(s, ValueEnd(s, i), "]") = "more" ->
            ElementsEnd(s, WsEnd(s, WsEnd(s, ValueEnd(s, i)) + 1))
      [] OTHER -> -1

\* The value of the member whose key string ends at place k.
MemberValueEnd(s, k) ==
    IF k < 0 \/ CharAfter(s, WsEnd(s, k)) # ":" THEN -1
    ELSE ValueEnd(s, WsEnd(s, WsEnd(s, k) + 1))

MembersEnd(s, i) ==
    IF CharAfter(s, i) # "\"" THEN -1
    ELSE CASE ListNext(s, MemberValueEnd(s, StringEnd(s, i + 1)), "}") = "end" ->
                 WsEnd(s, MemberValueEnd(s, StringEnd(s, i + 1))) + 1
           [] ListNext(s, MemberValueEnd(s, StringEnd(s, i + 1)), "}") = "more" ->
                 MembersEnd(s, WsEnd(s, WsEnd(s, MemberValueEnd(s, StringEnd(s, i + 1))) + 1))
           [] OTHER -> -1

ValueEnd(s, i) ==
    CASE CharAfter(s, i) = "[" ->
            IF CharAfter(s, WsEnd(s, i + 1)) = "]" THEN WsEnd(s, i + 1) + 1
            ELSE ElementsEnd(s, WsEnd(s, i + 1))
      [] CharAfter(s, i) = "{" ->
            IF CharAfter(s, WsEnd(s, i + 1)) = "}" THEN WsEnd(s, i + 1) + 1
            ELSE MembersEnd(s, WsEnd(s, i + 1))
      [] CharAfter(s, i) = "\"" -> StringEnd(s, i + 1)
      [] HasPrefix(s, i, <<"t", "r", "u", "e">>) -> i + 4
      [] HasPrefix(s, i, <<"f", "a", "l", "s", "e">>) -> i + 5
      [] HasPrefix(s, i, <<"n", "u", "l", "l">>) -> i + 4
      [] OTHER -> NumberEnd(s, i)

\* s is one JSON value, with whitespace before it and nothing but whitespace
\* after it.
OneJsonValue(s) ==
    /\ ValueEnd(s, WsEnd(s, 0)) >= 0
    /\ WsEnd(s, ValueEnd(s, WsEnd(s, 0))) = Len(s)

\* C18: parse returns a value only if the text is exactly one JSON value
\* followed by nothing but whitespace; empty and whitespace-only texts, and
\* texts with any further token after the root value, raise a
\* TsonParseError.
C18_OneValueThenEnd ==
    back.called =>
        /\ back.ok => OneJsonValue(back.text)
        /\ WsEnd(back.text, 0) = Len(back.text) => ParseErrorRaised
        /\ back.text \in TrailingTexts => ParseErrorRaised

\* A document with whitespace on both sides was parsed to its value.
C18_Witness ==
    /\ back.called /\ back.ok
    /\ back.text = <<" ", "\n">> \o stringifyJson(JArr(<<JObj(<< <<KeyA, JStr(KeyA)>> >>),
                                                         JArr(<<>>)>>), <<>>, FALSE)
                       \o <<"\n", " ", "\r">>
    /\ back.val = JsonAsValue(JArr(<<JObj(<< <<KeyA, JStr(KeyA)>> >>), JArr(<<>>)>>))

\* A second value after the root value, on the next line, was refused.
TrailingRefused ==
    /\ back.called /\ ParseErrorRaised
    /\ back.text = <<"1", "\n", "1">>
    /\ back.at.position = 2

\* The line of place p of text: 1 + the newlines before it.
LineOf(text, p) == 1 + Cardinality({i \in 1..p : text[i] = "\n"})

\* The place of the last newline before place p (0: none).
LineStart(text, p) ==
    CHOOSE n \in 0..p :
        /\ n > 0 => text[n] = "\n"
        /\ \A i \in (n + 1)..p : text[i] # "\n"

\* The column of place p: 1 + the characters since the last newline.
ColumnOf(text, p) == 1 + (p - LineStart(text, p))

\* C19: for every TsonParseError the reported line, column and position are
\* consistent with the text: the position lies in the text, the line is 1 +
\* the number of newlines before the position, and the column is 1 + the
\* number of characters between the last newline before the position (or
\* the start of the text) and the position.
C19_PositionalAccuracy ==
    (back.called /\ ParseErrorRaised) =>
        /\ back.at.position \in 0..Len(back.text)
        /\ back.at.line = LineOf(back.text, back.at.position)
        /\ back.at.column = ColumnOf(back.text, back.at.position)

(***************************************************************************)
(* Round trips: stringify of a value graph, parse of the text it returned, *)
(* and stringify of the value parse returned, on a default instance.       *)
(***************************************************************************)

\* The caller's value v as a tree: what deep equality compares.
RECURSIVE Unfold(_, _)
Unfold(h, v) ==
    IF v.t # "ref" THEN v
    ELSE LET cell == h[v.v]
             items == [i \in 1..Len(cell.slots) |-> Unfold(h, cell.slots[i])]
         IN  CASE cell.kind = "array" -> TArray(items)
               [] cell.kind = "object" -> TObject(DefineAll(cell.keys, items, <<>>))
               [] cell.kind = "set" -> TSet(items)
               [] cell.kind = "map" -> TMap(Pairs(items))
               [] OTHER -> TObject(<<>>)

\* Deep equality of two trees: arrays, Sets and Maps element by element,
\* plain objects key by key whatever the order, leaves by value.
RECURSIVE DeepEqual(_, _)
DeepEqual(a, b) ==
    IF a.t # b.t THEN FALSE
    ELSE CASE a.t \in {"array", "set"} ->
                /\ Len(a.v) = Len(b.v)
                /\ \A i \in 1..Len(a.v) : DeepEqual(a.v[i], b.v[i])
           [] a.t = "map" ->
                /\ Len(a.v) = Len(b.v)
                /\ \A i \in 1..Len(a.v) :
                      DeepEqual(a.v[i][1], b.v[i][1]) /\ DeepEqual(a.v[i][2], b.v[i][2])
           [] a.t = "object" ->
                /\ {a.v[i][1] : i \in 1..Len(a.v)} = {b.v[i][1] : i \in 1..Len(b.v)}
                /\ \A i \in 1..Len(a.v) : DeepEqual(a.v[i][2], ObjGet(b.v, a.v[i][1]))
           [] OTHER -> a = b

\* The tree parse returned as a value graph: [v, heap], each array, object,
\* Set and Map a new object appended to heap hp.
RECURSIVE Reify(_, _)
RECURSIVE ReifyAll(_, _, _)
ReifyAll(trees, hp, acc) ==
    IF trees = <<>> THEN [vs |-> acc, heap |-> hp]
    ELSE LET r == Reify(Head(trees), hp)
         IN  ReifyAll(Tail(trees), r.heap, Append(acc, r.v))

Reify(tree, hp) ==
    IF tree.t \notin {"array", "object", "set", "map"} THEN [v |-> tree, heap |-> hp]
    ELSE LET parts ==
                 CASE tree.t = "object" -> [i \in 1..Len(tree.v) |-> tree.v[i][2]]
                   [] tree.t = "map" ->
                        [i \in 1..(2 * Len(tree.v)) |->
                            tree.v[(i + 1) \div 2][IF i % 2 = 1 THEN 1 ELSE 2]]
                   [] OTHER -> tree.v
             r == ReifyAll(parts, hp, <<>>)
             keys == IF tree.t = "object" THEN ObjKeys(tree.v) ELSE <<>>
         IN  [v |-> VRef(Len(r.heap) + 1),
              heap |-> Append(r.heap, Cell(tree.t, keys, r.vs))]

\* tson.stringify of the value graph g = [v, heap].
RestringifyValue(g) ==
    /\ heap' = g.heap
    /\ StringifyReturn(g.v, out.strict, out.sorted,
                       stringify(handlerList, g.heap, g.v, out.strict, out.sorted, <<>>))

\* tson.stringify(tson.parse(text), options): the value the latest parse
\* returned, stringified with the options of the stringify call whose text
\* was parsed.
Restringify ==
    /\ out.called /\ out.ok
    /\ back.called /\ back.ok /\ back.revive /\ back.text = out.text
    /\ RestringifyValue(Reify(back.val, <<>>))
    /\ UNCHANGED <<handlers, handlerList, back, peer, token>>

\* tson.parse(text) of the text the latest stringify call returned.
ParseOutput ==
    /\ out.called /\ out.ok /\ ~back.called
    /\ \E revive \in BOOLEAN : Parse(out.text, revive)

RoundLeaves == {VNull, VNum(1), VStr(<<"a">>), VDate(3)}

\* The keys of an object that has the two keys of a tagged value.
TagKeyList == <<TypeKey, ValueKey>>

RoundKinds == {"array", "object", "set", "map"}

InitRound ==
    /\ handlers = create(TRUE).handlers
    /\ handlerList = create(TRUE).handlerList
    /\ \/ root \in RoundLeaves /\ heap = EmptyHeap
       \/ root = VRef(1) /\ heap \in Heaps(RoundLeaves, RoundKinds, KeyList)
       \/ root = VRef(1) /\ heap \in Heaps(RoundLeaves, {"array", "object"}, TagKeyList)
    /\ ~HasCycle(heap, root)
    /\ out = NoOut
    /\ back = NoBack
    /\ ret = Ret("none", <<>>, 0, TRUE)
    /\ peer = NoPeer
    /\ token = NoToken

NextRound ==
    \/ /\ ret.op = "none"
       /\ \E sorted \in BOOLEAN : Stringify(root, FALSE, sorted, <<>>)
    \/ ParseOutput
    \/ Restringify

SpecRound == InitRound /\ [][NextRound]_vars

\* C1: for every acyclic value built from null, booleans, finite numbers,
\* strings, arrays, plain objects with arbitrary string keys and
\* handler-backed values, parse(stringify(v)) on the same instance succeeds
\* and is deeply equal to v.
C1_RoundTrip ==
    (/\ ret.op = "parse" /\ back.revive
     /\ out.called /\ out.ok /\ back.text = out.text)
        => (back.ok /\ DeepEqual(Unfold(heap, root), back.val))

\* C2: whenever t = stringify(v, {sorted: true}) succeeds, parse(t) succeeds
\* and stringify(parse(t), {sorted: true}) is byte-identical to t.
C2_StringifyParseStable ==
    /\ (/\ ret.op = "parse" /\ back.revive
        /\ out.called /\ out.ok /\ out.sorted /\ back.text = out.text) => back.ok
    /\ (ret.op = "stringify" /\ back.called /\ out.sorted) => (out.ok /\ out.text = back.text)

(***************************************************************************)
(* Properties of conversion                                                *)
(***************************************************************************)

\* The value graph from v holds plain objects and arrays only.
PlainGraph(h, v) ==
    /\ v.t = "ref"
    /\ \A r \in Reach(h, v) : h[r].kind \in {"array", "object"}

\* v is a value with no JSON form that no registered handler accepts.
Unrepresentable(v) ==
    /\ v.t \in {"undefined", "function", "symbol", "bigint"}
    /\ findHandler(handlerList, v, heap) = <<>>

\* v is NaN or an infinity that no registered handler accepts.
NonFinite(v) ==
    /\ v.t = "nonfinite"
    /\ findHandler(handlerList, v, heap) = <<>>

\* Every value one stringify call of v reaches is a leaf the strict mode
\* accepts.
AllRepresentable(h, v) ==
    /\ ~Unrepresentable(v) /\ ~NonFinite(v)
    /\ \A r \in Reach(h, v) : \A i \in 1..Len(h[r].slots) :
          ~Unrepresentable(h[r].slots[i]) /\ ~NonFinite(h[r].slots[i])

RECURSIVE SkipsAsSpecified(_, _)
SkipsAsSpecified(v, j) ==
    IF v.t # "ref" THEN TRUE
    ELSE IF heap[v.v].kind = "array" /\ findHandler(handlerList, v, heap) = <<>>
    THEN LET slots == heap[v.v].slots
         IN  /\ j.t = "arr"
             /\ Len(j.v) = Len(slots)
             /\ \A i \in 1..Len(slots) :
                   IF Unrepresentable(slots[i]) THEN j.v[i] = JNull
                   ELSE SkipsAsSpecified(slots[i], j.v[i])
    ELSE IF heap[v.v].kind = "object" /\ findHandler(handlerList, v, heap) = <<>>
    THEN LET entries == Entries(heap[v.v])
             kept == SelectSeq(entries, LAMBDA e : ~Unrepresentable(e[2]))
         IN  /\ j.t = "obj"
             /\ ObjKeys(j.v) = [i \in 1..Len(kept) |-> kept[i][1]]
             /\ \A i \in 1..Len(kept) : SkipsAsSpecified(kept[i][2], j.v[i][2])
    ELSE TRUE

\* C4: with strict: false a value of type undefined, function or symbol, or
\* a bigint without a handler, is omitted as a plain object's property value,
\* becomes null as an array element, becomes null at the top level, and the
\* call never raises because of it.
C4_SkipSemantics ==
    (out.called /\ ~out.strict) =>
        /\ out.ok \/ out.err = CircularError
        /\ (out.ok /\ Unrepresentable(root)) => out.text = <<"n", "u", "l", "l">>
        /\ out.ok => SkipsAsSpecified(root, out.json)

\* { b: undefined, a: 1 } stringified as {"a":1}.
C4_Witness ==
    /\ out.called /\ ~out.strict /\ out.ok
    /\ root = VRef(1)
    /\ heap[1] = Cell("object", << <<"b">>, <<"a">> >>, <<VUndefined, VNum(1)>>)
    /\ out.text = <<"{", "\"", "a", "\"", ":", "1", "}">>

\* The values a stringify call of v hands to convertValue, given that no
\* earlier one raised: v, the elements and property values of the arrays and
\* plain objects met, and what a Set's handler passes to ctx.serialize.
RECURSIVE Visited(_, _)
Visited(v, n) ==
    IF n = 0 \/ v.t # "ref" THEN {v}
    ELSE LET hs == findHandler(handlerList, v, heap)
             cell == heap[v.v]
             inner == IF hs # <<>> \/ cell.kind \in {"array", "object"}
                      THEN {cell.slots[i] : i \in 1..Len(cell.slots)}
                      ELSE {}
         IN  {v} \cup UNION {Visited(w, n - 1) : w \in inner}

\* C5: with strict: true a value of type undefined, function or symbol, or a
\* bigint without a handler, or a non-finite number, at the top level, as a
\* property value, as an array element or among the values a handler passes to
\* ctx.serialize, makes stringify raise; no output is produced.
C5_StrictRaises ==
    (/\ out.called /\ out.strict
     /\ \E w \in Visited(root, NRefs + 1) : Unrepresentable(w) \/ NonFinite(w))
        => (~out.ok /\ out.text = <<>>)

\* A Set holding undefined, serialized by the built-in Set handler in strict
\* mode.
C5_Witness ==
    /\ out.called /\ out.strict /\ ~out.ok
    /\ out.err \in StrictErrors
    /\ root = VRef(1)
    /\ heap[1].kind = "set"
    /\ findHandler(handlerList, root, heap) # <<>>
    /\ heap[1].slots = <<VNum(1), VUndefined>>

\* What non-strict conversion of v must have produced at j as far as
\* non-finite numbers go: null in their place, including as a property value
\* and as a member a handler passed to ctx.serialize.
RECURSIVE NonFiniteAsNull(_, _)
NonFiniteAsNull(v, j) ==
    IF NonFinite(v) THEN j = JNull
    ELSE IF v.t # "ref" THEN TRUE
    ELSE LET hs == findHandler(handlerList, v, heap)
             cell == heap[v.v]
         IN  IF hs # <<>>
             THEN /\ isTaggedValue(j)
                  /\ hs[1].kind = "Set" =>
                        /\ ObjGet(j.v, ValueKey).t = "arr"
                        /\ Len(ObjGet(j.v, ValueKey).v) = Len(cell.slots)
                        /\ \A i \in 1..Len(cell.slots) :
                              NonFiniteAsNull(cell.slots[i], ObjGet(j.v, ValueKey).v[i])
             ELSE IF cell.kind = "array"
             THEN /\ j.t = "arr"
                  /\ Len(j.v) = Len(cell.slots)
                  /\ \A i \in 1..Len(cell.slots) :
                        NonFiniteAsNull(cell.slots[i], j.v[i])
             ELSE IF cell.kind = "object"
             THEN /\ j.t = "obj"
                  /\ \A i \in 1..Len(cell.slots) :
                        NonFinite(cell.slots[i]) =>
                            /\ ObjHas(j.v, cell.keys[i])
                            /\ ObjGet(j.v, cell.keys[i]) = JNull
                  /\ \A i \in 1..Len(cell.slots) :
                        ObjHas(j.v, cell.keys[i]) =>
                            NonFiniteAsNull(cell.slots[i], ObjGet(j.v, cell.keys[i]))
             ELSE TRUE

\* sub occurs in text at some position.
Occurs(sub, text) ==
    \E i \in 1..(Len(text) - Len(sub) + 1) : SubSeq(text, i, i + Len(sub) - 1) = sub

\* The text spells no non-finite literal: no NaN and no Infinity.
NoNonFiniteLiteral(text) ==
    /\ ~Occurs(<<"N", "a", "N">>, text)
    /\ ~Occurs(<<"I", "n", "f", "i", "n", "i", "t", "y">>, text)

\* C6: with strict: false NaN, Infinity and -Infinity are emitted as null at
\* every position conversion reaches, and the output text holds no
\* non-finite numeric literal.
C6_NonFiniteAsNull ==
    (out.called /\ ~out.strict /\ out.ok) =>
        /\ NonFiniteAsNull(root, out.json)
        /\ NonFinite(root) => out.text = <<"n", "u", "l", "l">>
        /\ NoNonFiniteLiteral(out.text)

\* { b: NaN, a: 1 } stringified as {"b":null,"a":1}.
C6_Witness ==
    /\ out.called /\ ~out.strict /\ out.ok
    /\ root = VRef(1)
    /\ heap[1] = Cell("object", << <<"b">>, <<"a">> >>, <<VNonFinite("NaN"), VNum(1)>>)
    /\ out.text = <<"{", "\"", "b", "\"", ":", "n", "u", "l", "l", ",",
                    "\"", "a", "\"", ":", "1", "}">>

(***************************************************************************)
(* Deterministic output: stringify with sorted, on objects whose keys are  *)
(* words, words in both cases, and canonical array indices.                *)
(***************************************************************************)

\* The key lists of the objects of a graph, in creation order.
SortKeyLists ==
    {<< <<"b">>, <<"a">> >>, << <<"1", "0">>, <<"9">> >>, << <<"a">>, <<"2">> >>,
     << <<"B">>, <<"a">> >>}

InitSorted ==
    /\ handlers = create(TRUE).handlers
    /\ handlerList = create(TRUE).handlerList
    /\ root = VRef(1)
    /\ \E keys \in SortKeyLists : heap \in Heaps({VNum(1)}, {"array", "object", "set"}, keys)
    /\ out = NoOut
    /\ back = NoBack
    /\ ret = Ret("none", <<>>, 0, TRUE)
    /\ peer = NoPeer
    /\ token = NoToken

NextSorted == \E sorted \in BOOLEAN : Stringify(root, FALSE, sorted, <<>>)

SpecSorted == InitSorted /\ [][NextSorted]_vars

\* The properties ps with p put in by ascending key.
RECURSIVE PutByKey(_, _)
PutByKey(p, ps) ==
    IF ps = <<>> THEN <<p>>
    ELSE IF StrLess(p[1], Head(ps)[1]) THEN <<p>> \o ps
    ELSE <<Head(ps)>> \o PutByKey(p, Tail(ps))

RECURSIVE ByKey(_)
ByKey(ps) == IF ps = <<>> THEN <<>> ELSE PutByKey(Head(ps), ByKey(Tail(ps)))

\* The tree j with the keys of every object ascending, arrays as they are.
RECURSIVE KeysAscending(_)
KeysAscending(j) ==
    IF j.t = "arr" THEN JArr([i \in 1..Len(j.v) |-> KeysAscending(j.v[i])])
    ELSE IF j.t = "obj"
    THEN JObj(ByKey([i \in 1..Len(j.v) |-> <<j.v[i][1], KeysAscending(j.v[i][2])>>]))
    ELSE j

\* C21: with sorted the text holds the keys of every object, at every depth
\* (inside arrays and tagged payloads too), in ascending order of the key
\* strings, and the array elements in the order they have without sorted.
C21_SortedKeys ==
    (out.called /\ out.ok /\ out.sorted) => out.text = Emit(KeysAscending(out.json), <<>>, 0)


\* The JSON tree of the text the last stringify returned.
OutTree == parseJson(out.text).val

\* The objects of the tree j, outermost first, in document order.
RECURSIVE ObjectsOf(_)
ObjectsOf(j) ==
    IF j.t = "arr" THEN Concat([i \in 1..Len(j.v) |-> ObjectsOf(j.v[i])])
    ELSE IF j.t = "obj"
    THEN <<j>> \o Concat([i \in 1..Len(j.v) |-> ObjectsOf(j.v[i][2])])
    ELSE <<>>

\* The objects of the emitted text that hold a key $type or a key $value.
EmittedTags == SelectSeq(ObjectsOf(OutTree), LAMBDA o : KeySet(o) \cap {TypeKey, ValueKey} # {})

\* The name of the handler of the i-th serialize call of the last stringify.
CalledName(i) ==
    (CHOOSE h \in {handlerList[k] : k \in 1..Len(handlerList)} : h.id = out.st.calls[i][1]).name

\* C22: every handler-matched value is in the emitted text as an object with
\* precisely the two keys $type and $value, $type being the matching
\* handler's name and $value the payload its serialize returned: as many
\* such objects as serialize calls, in call order when the keys are not
\* sorted, and no other key beside the two.
C22_TaggedShape ==
    (out.called /\ out.ok) =>
        /\ Len(EmittedTags) = Len(out.st.calls)
        /\ \A i \in 1..Len(EmittedTags) :
              /\ ObjKeys(EmittedTags[i].v) = <<TypeKey, ValueKey>>
              /\ ~out.sorted => ObjGet(EmittedTags[i].v, TypeKey) = JStr(CalledName(i))
              /\ out.sorted => ObjGet(EmittedTags[i].v, TypeKey).t = "str"
        /\ (Len(out.st.calls) > 0 /\ out.st.calls[1][2] = root) =>
              /\ OutTree.t = "obj"
              /\ ObjGet(OutTree.v, TypeKey) = JStr(CalledName(1))
              /\ Emit(ObjGet(OutTree.v, ValueKey), <<>>, 0)
                    = stringifyJson(ObjGet(out.json.v, ValueKey), <<>>, out.sorted)

\* A Set in a Set, sorted: two tagged values, one in the payload of the other.
C22_Witness ==
    /\ out.called /\ out.ok /\ out.sorted
    /\ Len(out.st.calls) = 2
    /\ Len(EmittedTags) = 2
    /\ OutTree = Tagged(setHandler.name, JArr(<<Tagged(setHandler.name, JArr(<<JNum(1)>>))>>))

(***************************************************************************)
(* The cycle guard: stringify calls, strict or not, on an instance with    *)
(* the built-in handlers or with one handler for Sets that retries each    *)
(* ctx.serialize call that raised.  The graphs hold arrays, plain objects, *)
(* Sets and objects with a toJSON method.                                  *)
(***************************************************************************)

\* serialize: (set, ctx) => Array.from(set).map((x) => {
\*     try { return ctx.serialize(x) } catch { return ctx.serialize(x) } })
retryHandler == Handler(11, <<"R">>, {"set"}, "retry")

GuardLeaves == {VUndefined, VNum(1)}

InitGuard ==
    /\ \/ /\ handlers = create(TRUE).handlers
          /\ handlerList = create(TRUE).handlerList
       \/ /\ handlers = [n \in {retryHandler.name} |-> retryHandler]
          /\ handlerList = <<retryHandler>>
    /\ root = VRef(1)
    /\ heap \in Heaps(GuardLeaves, {"array", "object", "set", "tojson"}, KeyList)
    /\ out = NoOut
    /\ back = NoBack
    /\ ret = Ret("none", <<>>, 0, TRUE)
    /\ peer = NoPeer
    /\ token = NoToken

SpecGuard == InitGuard /\ [][NextConv]_vars

\* C23: when a stringify call is over, returned or raised, no identity is
\* left in either WeakSet of the call, and the circular-reference error was
\* raised only for a graph in which some object reaches itself, also by a
\* handler that caught the error of ctx.serialize(x) and called it again.
C23_GuardCleanup ==
    out.called =>
        /\ out.st.top = {}
        /\ out.st.ctx = {}
        /\ (out.err = CircularError) => HasCycle(heap, root)

\* C24: a stringify call ends by returning text or by raising an error of
\* conversion, within a recursion depth that the graph bounds: the call stack
\* is never exhausted, whatever the graph holds, cycles and toJSON methods
\* that return their own object or a value holding it included.
C24_Termination ==
    out.called =>
        /\ out.err # StackError
        /\ out.ok \/ out.err = CircularError \/ out.err \in StrictErrors

\* The serialize invocations of a call that were handed the value v.
CallsOn(v) == {i \in 1..Len(out.st.calls) : out.st.calls[i][2] = v}

\* C25: the value handed to stringify is being converted for as long as the
\* call lasts, so when a handler matches it, conversion reaching it again,
\* through a property, an element or the handler's ctx.serialize, raises the
\* circular-reference error there: no handler's serialize is invoked on it a
\* second time, and the call on a graph in which it reaches itself fails with
\* that error.
C25_OneGuardPerCall ==
    (out.called /\ root.t = "ref" /\ findHandler(handlerList, root, heap) # <<>>) =>
        /\ Cardinality(CallsOn(root)) <= 1
        /\ (/\ OnCycle(heap, root.v)
            /\ \A r \in Reach(heap, root) : heap[r].kind # "tojson"
            /\ ~out.strict) => (~out.ok /\ out.err = CircularError)

(***************************************************************************)
(* Calls inside calls: stringify on an instance whose one handler, for     *)
(* Sets, calls stringify of the same instance on each member.              *)
(***************************************************************************)

\* serialize: (set) => Array.from(set).map((x) => tson.stringify(x))
nestedHandler == Handler(12, <<"N">>, {"set"}, "nested")

InitNested ==
    /\ handlers = [n \in {nestedHandler.name} |-> nestedHandler]
    /\ handlerList = <<nestedHandler>>
    /\ root = VRef(1)
    /\ heap \in Heaps(GuardLeaves, {"array", "object", "set"}, KeyList)
    /\ out = NoOut
    /\ back = NoBack
    /\ ret = Ret("none", <<>>, 0, TRUE)
    /\ peer = NoPeer
    /\ token = NoToken

SpecNested == InitNested /\ [][NextConv]_vars

\* tson.stringify(x) of member i of the Set at the root, run alone.
Alone(i) == stringify(handlerList, heap, heap[root.v].slots[i], FALSE, FALSE, <<>>)

\* The members of the Set at the root whose conversion, run alone, raises.
AloneRaising == {i \in 1..Len(heap[root.v].slots) : ~Alone(i).ok}

Broken(t) ==
    {t \o <<",">>, t \o <<"]">>, t \o <<" ", "x">>, t \o t,
     <<"[">> \o t, <<"[">> \o t \o <<",", "]">>, <<"[">> \o t \o <<",", "'", "]">>,
     <<"[">> \o t \o <<",", "1", ".", "]">>,
     <<"{", "\"", "a", "\"", ":">> \o t \o <<",", "}">>,
     <<"{", "\"", "a", "\"", ":">> \o t \o <<",", "\"", "b", "\"", "}">>,
     SubSeq(t, 1, Len(t) - 1)}

BrokenTexts == UNION {Broken(t) : t \in ReviveTexts}

\* The same texts made whole.
WholeTexts ==
    ReviveTexts \cup {<<"[">> \o t \o <<",", "1", "]">> : t \in ReviveTexts}

InitBroken ==
    /\ handlers = create(TRUE).handlers
    /\ handlerList = create(TRUE).handlerList
    /\ heap = EmptyHeap
    /\ root = VNull
    /\ out = NoOut
    /\ ret = Ret("none", <<>>, 0, TRUE)
    /\ peer = NoPeer
    /\ token = NoToken
    /\ \E text \in BrokenTexts \cup WholeTexts : back = [NoBack EXCEPT !.text = text]

SpecBroken == InitBroken /\ [][NextText]_vars

\* C27: for a text that is malformed somewhere, before, inside or after
\* well-formed tagged values, parse raises a TsonParseError and no handler's
\* deserialize was invoked; deserialize is invoked only in the calls whose
\* text is well-formed up to the end of the input.
C27_ParseBeforeRevive ==
    back.called =>
        /\ back.text \in BrokenTexts => (ParseErrorRaised /\ back.calls = <<>>)
        /\ back.calls # <<>> => back.text \in WholeTexts

\* [{"$type":"Set","$value":[1]},] : the Set was not made.
C27_Witness ==
    /\ back.called /\ ParseErrorRaised /\ back.calls = <<>>
    /\ back.text = <<"[">> \o stringifyJson(Tagged(setHandler.name, JArr(<<JNum(1)>>)),
                                          <<>>, FALSE) \o <<",", "]">>

(***************************************************************************)
(* Object texts over words, digits and __proto__ as keys, duplicates       *)
(* included: one parse call with revive.                                   *)
(***************************************************************************)

\* The most members of an object text.
MaxKeys == 3

KeyStrings == {<<"b">>, <<"a">>, <<"1">>, <<"0">>, ProtoKey}

KeySeqs == UNION {[1..m -> KeyStrings] : m \in 0..MaxKeys}

\* The object text with the keys ks in this order, member i holding i.
KeyText(ks) ==
    stringifyJson(JObj([i \in 1..Len(ks) |-> <<ks[i], JNum(i)>>]), <<>>, FALSE)

InitKeys ==
    /\ handlers = create(TRUE).handlers
    /\ handlerList = create(TRUE).handlerList
    /\ heap = EmptyHeap
    /\ root = VNull
    /\ out = NoOut
    /\ ret = Ret("none", <<>>, 0, TRUE)
    /\ peer = NoPeer
    /\ token = NoToken
    /\ \E ks \in KeySeqs : back = [NoBack EXCEPT !.text = KeyText(ks)]

SpecKeys == InitKeys /\ [][NextText]_vars

\* The keys of the text the last parse was called with, as written.
Written == CHOOSE ks \in KeySeqs : KeyText(ks) = back.text

\* The distinct keys of ks in order of first appearance.
FirstAppearance(ks) ==
    SelectSeq([i \in 1..Len(ks) |-> <<i, ks[i]>>],
              LAMBDA p : \A j \in 1..(p[1] - 1) : ks[j] # p[2])

\* The place of the last member written with the key k.
LastWritten(ks, k) == CHOOSE i \in 1..Len(ks) : ks[i] = k /\ \A j \in (i + 1)..Len(ks) : ks[j] # k

\* C28: parse of an object text, and the revival of what it parsed, yield an
\* object whose keys are the distinct keys of the text in order of first
\* appearance, each holding the value of its last occurrence in the text,
\* whatever the key strings are.
C28_KeyOrder ==
    (back.called /\ back.ok) =>
        /\ back.val.t = "object"
        /\ Len(back.val.v) = Len(FirstAppearance(Written))
        /\ \A i \in 1..Len(back.val.v) :
              /\ back.val.v[i][1] = FirstAppearance(Written)[i][2]
              /\ back.val.v[i][2] = JNum(LastWritten(Written, back.val.v[i][1]))

(***************************************************************************)
(* The snippet of a TsonParseError, on the texts of the strict grammar.    *)
(***************************************************************************)

Newlines(s) == {i \in 1..Len(s) : s[i] = "\n"}

\* The place of the k-th line feed of s.
NthNewline(s, k) ==
    CHOOSE i \in Newlines(s) : Cardinality({j \in Newlines(s) : j < i}) = k - 1

LineExists(s, n) == n >= 1 /\ n - 1 <= Cardinality(Newlines(s))

\* Line n of s, without its line feed.
SourceLine(s, n) ==
    SubSeq(s, IF n = 1 THEN 1 ELSE NthNewline(s, n - 1) + 1,
           IF n - 1 = Cardinality(Newlines(s)) THEN Len(s) ELSE NthNewline(s, n) - 1)

EndsWith(s, tail) ==
    /\ Len(s) >= Len(tail)
    /\ SubSeq(s, Len(s) - Len(tail) + 1, Len(s)) = tail

Blanks(n) == [i \in 1..n |-> " "]

\* C29: the snippet of a TsonParseError whose line exists in the input ends
\* with that source line and, on a line of its own, a caret at horizontal
\* offset column - 1 from where the source line starts, so that the caret is
\* under the character at the reported column; the column is at least 1.
C29_Snippet ==
    (back.called /\ ParseErrorRaised /\ LineExists(back.text, back.at.line)) =>
        /\ back.at.column >= 1
        /\ \E pad \in 0..2 :
              EndsWith(back.snippet,
                       <<"\n">> \o Blanks(pad) \o SourceLine(back.text, back.at.line)
                       \o <<"\n">> \o Blanks(pad + back.at.column - 1) \o <<"^">>)

(***************************************************************************)
(* Strings: one nextToken call on a text that starts with a double quote.  *)
(***************************************************************************)

\* The most characters of a text, the opening quote included.
MaxStrLen == 5

\* The most characters after the \u of a text that starts with "\u.
MaxHexLen == 5

\* The quote, the backslash, two escape characters (one of them the u), a
\* character that is a hex digit, one that is neither, and the two line ends.
StringChars == {"\"", "\\", "n", "u", "a", "x", "0", "\n", "\r"}

HexChars == {"0", "6", "1", "g", "\""}

StringTexts ==
    {<<"\"">> \o t : t \in TextsOver(StringChars, MaxStrLen - 1)}
    \cup {<<"\"", "\\", "u">> \o t : t \in TextsOver(HexChars, MaxHexLen)}
    \cup {<<"\"", "x", "\\", "u">> \o t : t \in TextsOver(HexChars, MaxHexLen)}

InitString ==
    /\ handlers = create(TRUE).handlers
    /\ handlerList = create(TRUE).handlerList
    /\ heap = EmptyHeap
    /\ root = VNull
    /\ out = NoOut
    /\ back = NoBack
    /\ ret = Ret("none", <<>>, 0, TRUE)
    /\ peer = NoPeer
    /\ \E input \in StringTexts : token = [NoToken EXCEPT !.input = input]

SpecString == InitString /\ [][NextNumber]_vars

\* What a simple escape stands for.
EscapeValue(c) ==
    CASE c = "n" -> "\n"
      [] c = "r" -> "\r"
      [] c = "t" -> "\t"
      [] c = "f" -> "\f"
      [] c = "b" -> "BS"
      [] OTHER -> c

\* The content between place i and the closing quote at place e, decoded.
RECURSIVE Decoded(_, _, _)
Decoded(s, i, e) ==
    IF i + 1 >= e THEN <<>>
    ELSE IF s[i + 1] # "\\" THEN <<s[i + 1]>> \o Decoded(s, i + 1, e)
    ELSE IF s[i + 2] = "u"
    THEN FromCharCode(SubSeq(s, i + 3, i + 6)) \o Decoded(s, i + 6, e)
    ELSE <<EscapeValue(s[i + 2])>> \o Decoded(s, i + 2, e)

StringErrors ==
    {"Unterminated string", "Unterminated string (newline in string)",
     "Invalid escape sequence", "Invalid unicode escape sequence"}

\* C30: nextToken at a double quote returns a String token, consuming through
\* the closing quote and holding the decoded content, exactly when a closing
\* quote is reached over content with no raw line feed or carriage return in
\* which every backslash is followed by one of " \ / b f n r t or by u and
\* four hex digits; in every other case it raises a TsonParseError and
\* returns no token.
C30_StringGrammar ==
    token.called =>
        /\ token.ok <=> StringEnd(token.input, 1) > 0
        /\ token.ok =>
              /\ token.type = "String"
              /\ token.start = 0
              /\ token.end = StringEnd(token.input, 1)
              /\ token.value = JStr(Decoded(token.input, 1, token.end))
        /\ ~token.ok =>
              /\ token.err.message \in StringErrors
              /\ token.type = ""

\* "a" is the String token a.
C30_Witness ==
    /\ token.called /\ token.ok
    /\ token.input = <<"\"", "\\", "u", "0", "0", "6", "1", "\"">>
    /\ token.type = "String"
    /\ token.value = JStr(<<"a">>)
    /\ token.end = 8

\* "\u006" lacks a hex digit and was refused.
ShortEscapeRefused ==
    /\ token.called /\ ~token.ok
    /\ token.input = <<"\"", "\\", "u", "0", "0", "6", "\"">>
    /\ token.err.message = "Invalid unicode escape sequence"

====
